---------------------------- MODULE Spec2Model ----------------------------
(***************************************************************************)
(* A model of the task runtime core (Task.h): the future wait queue of an  *)
(* AsyncTask (waitFuture / completeFuture over FutureFragment::waitQueue), *)
(* the status word of a task (ActiveTaskStatus) with its record chain and  *)
(* cancellation, task groups, task-local values and the job header; and of *)
(* the raw syntax nodes (RawSyntax.h, SyntaxTreeCreator.cpp).              *)
(*                                                                         *)
(* Spec       : one future, its waiters, its completers and the executors. *)
(* LiveSpec   : Spec with the fairness of threads that keep running and of *)
(*              executors that honour enqueue.                             *)
(* StatusSpec : the status word, record chain, and cancellation;           *)
(*              StatusLiveSpec adds the fairness of the cancelling threads. *)
(* GroupSpec  : a task group, its children and the parent's next calls;    *)
(*              GroupLiveSpec adds the fairness of running tasks.          *)
(* LocalSpec  : the task-local value stack of a parent and a child.        *)
(* JobSpec    : construction, dispatch and fragments of a job or task.     *)
(* SyntaxSpec : raw syntax trees built by a tree creator and the length-   *)
(*              computing factories.                                       *)
(* ArenaSpec  : trees across two syntax arenas and the arenas' release.    *)
(* IdSpec     : node construction with caller-supplied node ids.           *)
(* LookupSpec : lookups of reusable nodes in a syntax parsing cache.        *)
(* TransformSpec : the transforms of raw syntax nodes.                     *)
(* ParseSpec  : the parse of a source buffer and the print of its tree.    *)
(* CallSpec   : the async calls of a task started by the main runner;      *)
(*              CallLiveSpec adds the fairness of the running task.        *)
(* LockSpec   : cancelling threads and a thread that links and unlinks     *)
(*              records inside the status lock.                            *)
(* CoopSpec   : cancellation of started tasks suspended on a future.       *)
(* PackSpec   : construction of status words from their three parts.       *)
(* ChildSpec  : the lists of child tasks of parents and their children.    *)
(* SuspendSpec : tasks that suspend on futures, yield or hop, and are run  *)
(*              again by executors.                                        *)
(* TokenSpec  : recordToken on every token range of the source buffer.     *)
(* IdTransformSpec : trivia transforms among constructions with supplied   *)
(*              node ids.                                                  *)
(***************************************************************************)
EXTENDS Integers, Sequences, FiniteSets, TLC

(***************************************************************************)
(* Bounds of the model.                                                    *)
(***************************************************************************)
\* Number of tasks that call waitFuture on the future.
MaxWaiters == 2
\* Number of completeFuture calls made on the future (the second one is the
\* "second completion attempt").
MaxCompleters == 2
\* Width of the modelled machine word, in bits.
WordBits == 8
\* Number of child tasks in the root task's task group.
MaxGroupChildren == 2
\* Number of threads that call cancel on some task.
MaxCancellers == 2
\* Largest number of task-local bindings a task has pushed at a time.
MaxLocalDepth == 2
\* Number of times the constructed job is run.
MaxRuns == 2
\* Number of raw syntax nodes constructed while building a tree.
MaxNodes == 3
\* Number of raw syntax nodes constructed with caller-chosen node ids.
MaxIdNodes == 4
\* Width of the modelled SyntaxNodeId (an unsigned), in bits.
IdBits == 2
\* Number of raw syntax nodes recorded while parsing the source buffer.
MaxParseNodes == 6
\* Number of nested async calls below the function the main runner starts.
MaxCallDepth == 2
\* Number of tasks of a family of parents and children.
MaxFamily == 4
\* Number of activation records of a task that suspends and resumes.
MaxContexts == 2

\* Width in bits of the unsigned integers of the tree creator (32 in the
\* code, reduced here as WordBits is).
UnsignedBits == 16

(***************************************************************************)
(* Machine words and bit operations (uintptr_t arithmetic).                *)
(***************************************************************************)
RECURSIVE BitAndN(_, _, _)
BitAndN(a, b, n) ==
  IF n = 0 THEN 0
  ELSE (IF a % 2 = 1 /\ b % 2 = 1 THEN 1 ELSE 0)
       + 2 * BitAndN(a \div 2, b \div 2, n - 1)

RECURSIVE BitOrN(_, _, _)
BitOrN(a, b, n) ==
  IF n = 0 THEN 0
  ELSE (IF a % 2 = 1 \/ b % 2 = 1 THEN 1 ELSE 0)
       + 2 * BitOrN(a \div 2, b \div 2, n - 1)

RECURSIVE Pow2(_)
Pow2(n) == IF n = 0 THEN 1 ELSE 2 * Pow2(n - 1)

WordMax == Pow2(WordBits) - 1
BitAnd(a, b) == BitAndN(a, b, WordBits)
BitOr(a, b) == BitOrN(a, b, WordBits)
BitNot(a) == WordMax - a

\* sizeof(void*) / alignof(void*) of the modelled platform.
PointerSize == 8
nullptr == 0
\* Marks storage that has not been written yet.
Uninit == 0

(***************************************************************************)
(* AsyncTask objects.  An AsyncTask is aligned to 2 * alignof(void* ), so   *)
(* task number t lives at address t * 16.                                  *)
(***************************************************************************)
AsyncTaskAlign == 2 * PointerSize
Waiters == 1..MaxWaiters
Completers == 1..MaxCompleters
\* Payloads and executor references are opaque to the runtime: the c-th
\* completeFuture call carries payload c (a result value or an error
\* reference) and is passed executor c, so that distinct calls can be told
\* apart by what they wrote and by where they enqueued.
Payload(c) == c
Values == {Payload(c) : c \in Completers}
ExecutorArg(c) == c
Executors == {ExecutorArg(c) : c \in Completers}
TaskAddr_unaligned(t) == t * AsyncTaskAlign + 1
TaskAddr(t) == t * AsyncTaskAlign
AddrTask(a) == a \div AsyncTaskAlign

(***************************************************************************)
(* FutureFragment::Status and FutureFragment::WaitQueueItem.               *)
(***************************************************************************)
Executing == 0
Success == 1
Error == 2

statusMask == 3

getStatus_mask1(storage) == BitAnd(storage, 1)
getStatus(storage) == BitAnd(storage, statusMask)

getTask_keepstatus(storage) == BitAnd(storage, statusMask)
getTask_nomask(storage) == storage
getTask(storage) == BitAnd(storage, BitNot(statusMask))

WaitQueueItem_get_droptask(status, task) == status
WaitQueueItem_get(status, task) == BitOr(task, status)

\* FutureFragment constructor: the queue starts {Executing, nullptr}.
FutureFragment_init == WaitQueueItem_get(Executing, nullptr)

(***************************************************************************)
(* ActiveTaskStatus: the packed status word of a task,                     *)
(* {innermost record, IsCancelled, IsLocked}.                              *)
(***************************************************************************)
IsCancelled == 1
IsLocked == 2
RecordMask_keeplock == BitNot(IsCancelled)
RecordMask == BitNot(BitOr(IsCancelled, IsLocked))

\* ActiveTaskStatus(): Value(0)
ActiveTaskStatus_default == 0

\* ActiveTaskStatus(innermostRecord, cancelled, locked)
ActiveTaskStatus_swapbits(innermostRecord, cancelled, locked) ==
  (innermostRecord + (IF locked THEN IsCancelled ELSE 0)
                   + (IF cancelled THEN IsLocked ELSE 0)) % (WordMax + 1)

ActiveTaskStatus_cancelonly(innermostRecord, cancelled, locked) ==
  ((IF cancelled THEN nullptr ELSE innermostRecord)
     + (IF locked THEN IsLocked ELSE 0)
     + (IF cancelled THEN IsCancelled ELSE 0)) % (WordMax + 1)

ActiveTaskStatus(innermostRecord, cancelled, locked) ==
  (innermostRecord + (IF locked THEN IsLocked ELSE 0)
                   + (IF cancelled THEN IsCancelled ELSE 0)) % (WordMax + 1)

isCancelled_lockbit(Value) == BitAnd(Value, IsLocked) # 0
isCancelled_never(Value) == FALSE
isCancelled(Value) == BitAnd(Value, IsCancelled) # 0

isLocked_cancelbit(Value) == BitAnd(Value, IsCancelled) # 0
isLocked(Value) == BitAnd(Value, IsLocked) # 0

getInnermostRecord_nomask(Value) == Value
getInnermostRecord(Value) == BitAnd(Value, RecordMask)

(***************************************************************************)
(* The task tree of the status model: a root task with a task group of     *)
(* MaxGroupChildren child tasks, the first of which has a child of its     *)
(* own.  Status records are at least 4-byte aligned.                       *)
(***************************************************************************)
RecordAlign == 4
Root == 1
GroupChildren == 2..(1 + MaxGroupChildren)
Grandchild == 2 + MaxGroupChildren
STasks == 1..Grandchild
Cancellers == 1..MaxCancellers

\* The status records: the root's task group record and cancellation
\* handler record, and the child task record of the first group child.
GroupRec == 1
HandlerRec == 2
ChildRec == 3
Records == {GroupRec, HandlerRec, ChildRec}
RecAddr(r) == r * RecordAlign
AddrRec(a) == a \div RecordAlign
RecordsOf(t) ==
  IF t = Root THEN {GroupRec, HandlerRec}
  ELSE IF t = 2 THEN {ChildRec} ELSE {}

\* ChildFragment::NextChild, as linked by the parent when it created the
\* children: the group's children form one list, the grandchild is alone.
ChildFragment_getNextChild_none(t) == nullptr
ChildFragment_getNextChild(t) ==
  IF t \in GroupChildren /\ t + 1 \in GroupChildren
  THEN TaskAddr(t + 1) ELSE nullptr

\* The first child of the list that starts in a record (nullptr for a
\* record that carries no children).
RecFirstChild(r) ==
  IF r = GroupRec THEN TaskAddr(2)
  ELSE IF r = ChildRec THEN TaskAddr(Grandchild) ELSE nullptr

FirstChildAt(a) == IF a = nullptr THEN nullptr ELSE RecFirstChild(AddrRec(a))

\* The child tasks that the owner of record r created under it.
RecChildren(r) ==
  IF r = GroupRec THEN GroupChildren
  ELSE IF r = ChildRec THEN {Grandchild} ELSE {}


VARIABLES
  \* ---- the future ----
  waitQueue,      \* FutureFragment::waitQueue, the packed atomic word
  result,         \* trailing result storage of the future fragment
  error,          \* FutureFragment::error
  nextWaiting,    \* [task -> SchedulerPrivate[NextWaitingTaskIndex]]
  \* ---- waitFuture(waitingTask) of each waiter ----
  wpc,            \* position of each waiter
  queueHead,      \* waitFuture's local queueHead
  ret,            \* the status waitFuture returned, or NotReturned
  readVal,        \* what the waiter read after it learnt of the completion
  \* ---- completeFuture(context, executor) of each completer ----
  cpc,            \* position of each completer
  cargs,          \* [kind, val, exec] a completer was called with
  cCur,           \* completeFuture's walk cursor (waitingTask)
  \* ---- executors ----
  enqLog,         \* every enqueue(job) so far: <<[task, exec, by]>>
  ranIdx,         \* entries of enqLog whose job has been run
  \* ---- history ----
  regOrder,       \* waiters in the order of their successful registration CAS
  headAtReg,      \* [task -> head of the queue replaced by its registration]
  completedBy,    \* completers whose completion CAS succeeded, in order
  firstResult,    \* result storage / error slot right after the transition
  firstError,
  \* ---- task status (StatusSpec) ----
  status,         \* [task -> AsyncTask::Status], the packed atomic word
  recParent,      \* [record -> TaskStatusRecord parent link]
  kpc,            \* position of each cancelling thread
  cstack,         \* [canceller -> its nested cancel calls, innermost last]
  ipc,            \* task whose status lock the inspecting thread holds, or 0
  \* ---- history ----
  handlerRuns,    \* [record -> times its cancellation action ran]
  effCancels,     \* [task -> cancel calls that set its cancelled bit]
  noopCancels,    \* cancel calls that found the task already cancelled
  snap,           \* [task -> children in its records when it was cancelled]
  pushStack,      \* [task -> its pushed, not yet popped records, oldest first]
  \* ---- task group (GroupSpec) ----
  gpc,            \* position of each child task of the parent
  gkind,          \* [child -> status its future completed with]
  pending,        \* the group's queue of offered completions
  nextState,      \* the parent's position in group.next()
  delivered,      \* completion handed to the parked parent, or 0
  \* ---- history ----
  offerLog,       \* tasks offered to the group, in order
  returned,       \* tasks whose completion next() returned, in order
  \* ---- task-local values (LocalSpec) ----
  Local,          \* [task -> its stack of bindings, innermost first]
  inherited,      \* the parent's bindings the child task was created with
  childCreated,   \* whether the child task has been created
  lastGet,        \* the last localValueGet call and what it returned
  \* ---- history ----
  pushLog,        \* [task -> its pushed, not popped bindings, oldest first]
  pushLogAtCreate, \* pushLog of the parent when the child was created
  \* ---- one job object (JobSpec) ----
  job,            \* the constructed Job or AsyncTask, or NoJob
  asserted,       \* whether an assertion of the code has failed
  invocations,    \* the entrypoint calls made by running the job
  lastFragment,   \* the last fragment accessor call and its result
  \* ---- raw syntax (SyntaxSpec, IdSpec) ----
  nodes,          \* the RawSyntax nodes constructed so far; a node pointer
                  \* is an index into this sequence, 0 is the null pointer
  NextFreeNodeId, \* RawSyntax::NextFreeNodeId
  ChildArenas,    \* [arena -> the arenas it retains]
  external,       \* [arena -> whether a tree creator or root retains it]
  arenaAlive,     \* [arena -> whether it has not been freed]
  \* ---- the tree creator's parse (LookupSpec, ParseSpec) ----
  SyntaxCache,    \* the SyntaxParsingCache the tree creator was given
  lookupResult,   \* the last lookupNode call and what it returned
  lexerPos,       \* the number of source tokens the parser has consumed
  pendingNodes,   \* the recorded nodes the parser has not yet put in a layout
  transformResult, \* the last transform call and the node it returned
  \* ---- async calls of a task (CallSpec, CallLiveSpec) ----
  contexts,       \* the AsyncContexts allocated; a context pointer is an
                  \* index into this sequence, 0 is the null pointer
  activations,    \* per context, the function activation that owns it
  resumeContext,  \* the task's current activation record
  callLog,        \* the resumeParent calls made and what each invoked
  printed,        \* what the function bodies printed
  taskDone,       \* how often the main runner's completion was invoked
  \* ---- a thread changing a chain under the lock (LockSpec) ----
  mutation,       \* the locked section of the mutating thread, if any
  \* ---- a status value under construction (PackSpec) ----
  \* ---- tasks across suspension points (SuspendSpec) ----
  futureQueue,    \* [future -> FutureFragment::waitQueue]
  SchedulerPrivate, \* [task -> Job::SchedulerPrivate]
  taskPc,         \* [task -> running, waiting, parked or enqueued]
  waitingOn,      \* [task -> the future of its waitFuture call, or 0]
  localHead,      \* [task -> waitFuture's local queueHead]
  currentContext, \* [task -> the activation record it is executing in]
  taskResumeContext, \* [task -> AsyncTask::ResumeContext]
  suspension,     \* [task -> kind and activation of its last suspension]
  lastResume,     \* [task -> the ResumeTask call that has just resumed it]
  runningOn,      \* [task -> the executors running it]
  enqueuedOn,     \* [task -> the executors it is enqueued on]
  walkCursor,     \* [future -> completeFuture's cursor in the detached list]
  walkExecutor,   \* [future -> the executor completeFuture was given]
  \* ---- child tasks (ChildSpec) ----
  fragments,      \* the ChildFragment of each child task created so far
  FirstChild,     \* per task, the head of the list in its child task record
  lastLink,       \* the last setNextChild call: caller, fragment, argument
  statusWord      \* the arguments of the last ActiveTaskStatus built, and it

futureVars == <<waitQueue, result, error, nextWaiting, wpc, queueHead, ret,
                readVal, cpc, cargs, cCur, enqLog, ranIdx, regOrder,
                headAtReg, completedBy, firstResult, firstError>>

statusVars == <<status, recParent, kpc, cstack, ipc, handlerRuns,
                effCancels, noopCancels, snap, pushStack>>

groupVars == <<gpc, gkind, pending, nextState, delivered, offerLog,
               returned>>

localVars == <<Local, inherited, childCreated, lastGet, pushLog,
               pushLogAtCreate>>

jobVars == <<job, asserted, invocations, lastFragment>>

syntaxVars == <<nodes, NextFreeNodeId, ChildArenas, external, arenaAlive>>

parseVars ==
  <<SyntaxCache, lookupResult, lexerPos, pendingNodes, transformResult>>

lockVars == <<mutation>>
packVars == <<statusWord>>
\* The variables of the specifications added last.
childVars == <<fragments, FirstChild, lastLink>>
suspendVars ==
  <<futureQueue, SchedulerPrivate, taskPc, waitingOn, localHead,
    currentContext, taskResumeContext, suspension, lastResume, runningOn,
    enqueuedOn, walkCursor, walkExecutor>>
moreVars == <<packVars, childVars, suspendVars>>
callVars == <<contexts, activations, resumeContext, callLog, printed, taskDone>>

nonFutureVars == <<statusVars, groupVars, localVars, jobVars, syntaxVars,
                  parseVars, callVars,
                  lockVars, moreVars>>
nonStatusVars == <<futureVars, groupVars, localVars, jobVars, syntaxVars,
                  parseVars, callVars,
                  lockVars, moreVars>>
nonGroupVars == <<futureVars, statusVars, localVars, jobVars, syntaxVars,
                  parseVars, callVars,
                  lockVars, moreVars>>
nonLocalVars == <<futureVars, statusVars, groupVars, jobVars, syntaxVars,
                  parseVars, callVars,
                  lockVars, moreVars>>
nonJobVars == <<futureVars, statusVars, groupVars, localVars, syntaxVars,
                  parseVars, callVars,
                  lockVars, moreVars>>

taskVars == <<futureVars, statusVars, groupVars, localVars, jobVars,
             callVars, lockVars, moreVars>>
nonCallVars == <<futureVars, statusVars, groupVars, localVars, jobVars,
                syntaxVars, parseVars, lockVars, moreVars>>
nonSyntaxVars == <<taskVars, parseVars>>
\* The variables of the specifications other than those added last.
coreVars == <<futureVars, statusVars, groupVars, localVars, jobVars,
             syntaxVars, parseVars, callVars, lockVars>>

vars == <<futureVars, statusVars, groupVars, localVars, jobVars,
          syntaxVars, parseVars, callVars, lockVars, moreVars>>

\* ret of a waitFuture call that has not returned (no Status value).
NotReturned == 0 - 1

NoArgs == [kind |-> Executing, val |-> 0, exec |-> 0]

\* A SchedulerPrivate word no store has reached: the Job constructors
\* initialise Flags and the invoke function only, so the word holds
\* whatever the memory of the allocation held.
NeverWritten == 0 - 1

(***************************************************************************)
(* AsyncTask::getNextWaitingTask: the link lives in SchedulerPrivate[0].   *)
(* The operator gives the values a read of the link can return: the word   *)
(* last stored, or any word at all while the link has never been written.  *)
(***************************************************************************)
getNextWaitingTask_wrongslot(t) == 0..WordMax
getNextWaitingTask(t) ==
  IF nextWaiting[t] = NeverWritten THEN 0..WordMax ELSE {nextWaiting[t]}

InitFuture ==
  /\ waitQueue = FutureFragment_init
  /\ result = Uninit              \* the trailing storage is uninitialised
  /\ error = nullptr
  /\ nextWaiting = [t \in Waiters |-> NeverWritten]  \* not initialised
  /\ wpc = [t \in Waiters |-> "start"]
  /\ queueHead = [t \in Waiters |-> 0]
  /\ ret = [t \in Waiters |-> NotReturned]
  /\ readVal = [t \in Waiters |-> 0]
  /\ cpc = [c \in Completers |-> "idle"]
  /\ cargs = [c \in Completers |-> NoArgs]
  /\ cCur = [c \in Completers |-> nullptr]
  /\ enqLog = <<>>
  /\ ranIdx = {}
  /\ regOrder = <<>>
  /\ headAtReg = [t \in Waiters |-> nullptr]
  /\ completedBy = <<>>
  /\ firstResult = 0
  /\ firstError = 0

InitStatus ==
  /\ status = [t \in STasks |-> ActiveTaskStatus_default]
  /\ recParent = [r \in Records |-> nullptr]
  /\ kpc = [k \in Cancellers |-> "idle"]
  /\ cstack = [k \in Cancellers |-> <<>>]
  /\ ipc = 0
  /\ handlerRuns = [r \in Records |-> 0]
  /\ effCancels = [t \in STasks |-> 0]
  /\ noopCancels = 0
  /\ snap = [t \in STasks |-> {}]
  /\ pushStack = [t \in STasks |-> <<>>]

\* The flags of the tasks of the task tree: the root's group children were
\* created by group.add, the grandchild is a plain child task.
JobFlagsOf(t) ==
  [isAsyncTask |-> TRUE,
   isChildTask |-> t # Root,
   isGroupChildTask |-> t \in GroupChildren,
   isFuture |-> t # Root]

\* The children of the task tree: each has a future to complete.
GTasks == STasks \ {Root}

InitGroup ==
  /\ gpc = [c \in GTasks |-> "running"]
  /\ gkind = [c \in GTasks |-> Executing]
  /\ pending = <<>>
  /\ nextState = "idle"
  /\ delivered = 0
  /\ offerLog = <<>>
  /\ returned = <<>>

\* The tasks of the task-local model: the root and its first child.
LocalChild == 2
LTasks == {Root, LocalChild}

\* No value (a null OpaqueValue *).
Nothing == 0
NoGet == [task |-> 0, key |-> "", inherit |-> "", value |-> Nothing]

InitLocal ==
  /\ Local = [t \in LTasks |-> <<>>]
  /\ inherited = <<>>
  /\ childCreated = FALSE
  /\ lastGet = NoGet
  /\ pushLog = [t \in LTasks |-> <<>>]
  /\ pushLogAtCreate = <<>>

\* No object constructed yet; no fragment accessor called yet.
NoJob == [class |-> "none"]
NoFragment == [fragment |-> "none", offset |-> 0]

InitJob ==
  /\ job = NoJob
  /\ asserted = FALSE
  /\ invocations = <<>>
  /\ lastFragment = NoFragment

\* The syntax arenas: arena A and arena B, each retained by its tree
\* creator.
ArenaA == 1
ArenaB == 2
Arenas == {ArenaA, ArenaB}

\* The first node id handed out.
FirstNodeId == 1

InitSyntax ==
  /\ nodes = <<>>
  /\ NextFreeNodeId = FirstNodeId
  /\ ChildArenas = [a \in Arenas |-> {}]
  /\ external = [a \in Arenas |-> TRUE]
  /\ arenaAlive = [a \in Arenas |-> TRUE]

\* The positions the incremental parse looks nodes up at, and the
\* tree creator before its parse: it was given no cache, has made no
\* lookup and has consumed no token.
LookupOffsets == {0, 4}
NoCache == [supplied |-> FALSE, node |-> [o \in LookupOffsets |-> 0]]
NoLookup == [offset |-> 0 - 1, kind |-> "", length |-> 0, node |-> 0]
NoTransform == [op |-> "", on |-> 0, arg |-> <<>>, node |-> 0]

InitParse ==
  /\ SyntaxCache = NoCache
  /\ lookupResult = NoLookup
  /\ lexerPos = 0
  /\ pendingNodes = <<>>
  /\ transformResult = NoTransform

\* No task has been started by the async main runner.
InitCall ==
  /\ contexts = <<>>
  /\ activations = <<>>
  /\ resumeContext = nullptr
  /\ callLog = <<>>
  /\ printed = <<>>
  /\ taskDone = 0

\* The mutating thread is in no locked section and has left none.
NoMutation ==
  [task |-> 0, found |-> nullptr, record |-> nullptr, released |-> 0]

InitLock == mutation = NoMutation

\* ActiveTaskStatus(): the default status.
DefaultStatus ==
  [record |-> nullptr, cancelled |-> FALSE, locked |-> FALSE,
   Value |-> ActiveTaskStatus_default]

InitPack == statusWord = DefaultStatus

\* The tasks of a family: task 1 is the root and has no child fragment.
FamilyTasks == 1..MaxFamily
NoChildFragment ==
  [Parent |-> nullptr, NextChild |-> nullptr, made |-> FALSE]
NoLink == [caller |-> nullptr, fragment |-> nullptr, task |-> nullptr]

InitChild ==
  /\ fragments = [t \in FamilyTasks |-> NoChildFragment]
  /\ FirstChild = [t \in FamilyTasks |-> nullptr]
  /\ lastLink = NoLink

\* The tasks that suspend and resume, the futures they wait on, the
\* executors that run them and the activation records of a task.
SuspendTasks == {1, 2}
SuspendFutures == {1, 2}
SuspendExecutors == {1, 2}
ContextIds == 1..MaxContexts
FirstContext == 1
NoSuspension == [kind |-> "", context |-> nullptr]
NoResume == [executor |-> 0, context |-> nullptr, after |-> ""]

\* Every task has been started with its initial context and is running.
InitSuspend ==
  /\ futureQueue = [f \in SuspendFutures |-> FutureFragment_init]
  /\ SchedulerPrivate =                              \* not initialised
       [t \in SuspendTasks |-> <<NeverWritten, NeverWritten>>]
  /\ taskPc = [t \in SuspendTasks |-> "running"]
  /\ waitingOn = [t \in SuspendTasks |-> 0]
  /\ localHead = [t \in SuspendTasks |-> 0]
  /\ currentContext = [t \in SuspendTasks |-> FirstContext]
  /\ taskResumeContext = [t \in SuspendTasks |-> FirstContext]
  /\ suspension = [t \in SuspendTasks |-> NoSuspension]
  /\ lastResume = [t \in SuspendTasks |-> NoResume]
  /\ runningOn = [t \in SuspendTasks |-> {1}]
  /\ enqueuedOn = [t \in SuspendTasks |-> {}]
  /\ walkCursor = [f \in SuspendFutures |-> nullptr]
  /\ walkExecutor = [f \in SuspendFutures |-> 0]

Init ==
  /\ InitFuture /\ InitStatus /\ InitGroup /\ InitLocal /\ InitJob
  /\ InitSyntax /\ InitParse /\ InitCall /\ InitLock /\ InitPack
  /\ InitChild /\ InitSuspend

(***************************************************************************)
(* waitFuture(waitingTask)                                                 *)
(***************************************************************************)
\* What a waiter that learnt status st may read: the result storage
\* (Success) or the error (Error); uninitialised storage reads as anything.
ReadOutcome(st) ==
  IF st = Success
  THEN (IF result = Uninit THEN Values ELSE {result})
  ELSE {error}

\* Steps 2 and 3a for a wait queue value `head` just observed (by the load
\* or by a failed CAS): if its status is not Executing, return that status
\* and the caller queries the future; otherwise set
\* waiting_task.next_waiter = current_head and go on to the CAS.
WaitObserve(t, head) ==
  /\ IF getStatus(head) # Executing
     THEN /\ queueHead' = [queueHead EXCEPT ![t] = 0]
          /\ ret' = [ret EXCEPT ![t] = getStatus(head)]
          /\ \E v \in ReadOutcome(getStatus(head)) :
               readVal' = [readVal EXCEPT ![t] = v]
          /\ wpc' = [wpc EXCEPT ![t] = "returned"]
          /\ UNCHANGED nextWaiting
     ELSE /\ queueHead' = [queueHead EXCEPT ![t] = head]
          /\ nextWaiting' = [nextWaiting EXCEPT ![t] = getTask(head)]
          /\ wpc' = [wpc EXCEPT ![t] = "cas"]
          /\ UNCHANGED <<ret, readVal>>

\* Waiting tasks are numbered in the order in which they call waitFuture,
\* and completeFuture calls in the order in which they are made.
Called(t) == \A u \in Waiters : u < t => wpc[u] # "start"

\* 1. Load the current wait queue.
WaitLoad(t) ==
  /\ wpc[t] = "start"
  /\ Called(t)
  /\ WaitObserve(t, waitQueue)
  /\ UNCHANGED <<waitQueue, result, error, cpc, cargs, cCur, enqLog,
                 ranIdx, regOrder, headAtReg, completedBy, firstResult,
                 firstError>>
  /\ UNCHANGED nonFutureVars

\* 3b. CAS the word to {Executing, waiting_task}; 4. return Executing.
WaitCASSuccess(t) ==
  /\ wpc[t] = "cas"
  /\ waitQueue = queueHead[t]
  /\ waitQueue' = WaitQueueItem_get(Executing, TaskAddr(t))
  /\ ret' = [ret EXCEPT ![t] = Executing]
  /\ wpc' = [wpc EXCEPT ![t] = "parked"]
  /\ regOrder' = Append(regOrder, t)
  /\ headAtReg' = [headAtReg EXCEPT ![t] = getTask(waitQueue)]
  /\ queueHead' = [queueHead EXCEPT ![t] = 0]
  /\ UNCHANGED <<result, error, nextWaiting, readVal, cpc, cargs,
                 cCur, enqLog, ranIdx, completedBy, firstResult, firstError>>
  /\ UNCHANGED nonFutureVars

\* 3c. On CAS failure, retry with the value the CAS observed.
WaitCASFail(t) ==
  /\ wpc[t] = "cas"
  /\ waitQueue # queueHead[t]
  /\ WaitObserve(t, waitQueue)
  /\ UNCHANGED <<waitQueue, result, error, cpc, cargs, cCur, enqLog,
                 ranIdx, regOrder, headAtReg, completedBy, firstResult,
                 firstError>>
  /\ UNCHANGED nonFutureVars

(***************************************************************************)
(* completeFuture(context, executor)                                       *)
(***************************************************************************)
\* 1. Write the result into the trailing storage (or the error into error).
CompleteWrite(c, kind) ==
  /\ cpc[c] = "idle"
  /\ \A d \in Completers : d < c => cpc[d] # "idle"
  /\ cargs' = [cargs EXCEPT ![c] =
                 [kind |-> kind, val |-> Payload(c), exec |-> ExecutorArg(c)]]
  /\ result' = IF kind = Success THEN Payload(c) ELSE result
  /\ error' = IF kind = Error THEN Payload(c) ELSE error
  /\ cpc' = [cpc EXCEPT ![c] = "cas"]
  /\ UNCHANGED <<waitQueue, nextWaiting, wpc, queueHead, ret, readVal, cCur,
                 enqLog, ranIdx, regOrder, headAtReg, completedBy,
                 firstResult, firstError>>
  /\ UNCHANGED nonFutureVars

\* The walk of completeFuture goes on while a waiting task is left.
WalkPc(waitingTask) == IF waitingTask = nullptr THEN "done" ELSE "walk"

\* 2. CAS waitQueue from {Executing, head} to {Success|Error, null}: the
\* step that takes effect, whatever head is by then.
CompleteCASSuccess(c) ==
  /\ cpc[c] = "cas"
  /\ getStatus(waitQueue) = Executing
  /\ waitQueue' = WaitQueueItem_get(cargs[c].kind, nullptr)
  /\ cCur' = [cCur EXCEPT ![c] = getTask(waitQueue)]
  /\ cpc' = [cpc EXCEPT ![c] = WalkPc(getTask(waitQueue))]
  /\ completedBy' = Append(completedBy, c)
  /\ firstResult' = IF completedBy = <<>> THEN result ELSE firstResult
  /\ firstError' = IF completedBy = <<>> THEN error ELSE firstError
  /\ UNCHANGED <<result, error, nextWaiting, wpc, queueHead, ret, readVal,
                 cargs, enqLog, ranIdx, regOrder, headAtReg>>
  /\ UNCHANGED nonFutureVars

\* The CAS fails because the status is no longer Executing: a second
\* completion attempt, a programmer error; the call ends here.
CompleteCASAbort(c) ==
  /\ cpc[c] = "cas"
  /\ getStatus(waitQueue) # Executing
  /\ cpc' = [cpc EXCEPT ![c] = "aborted"]
  /\ cargs' = [cargs EXCEPT ![c] = NoArgs]
  /\ UNCHANGED <<waitQueue, result, error, nextWaiting, wpc, queueHead, ret,
                 readVal, cCur, enqLog, ranIdx, regOrder, headAtReg,
                 completedBy, firstResult, firstError>>
  /\ UNCHANGED nonFutureVars

\* 3. Walk the detached list; enqueue each waiter on the supplied executor.
CompleteWalk(c) ==
  /\ cpc[c] = "walk"
  /\ cCur[c] # nullptr
  /\ AddrTask(cCur[c]) \in Waiters
  /\ enqLog' = Append(enqLog, [task |-> AddrTask(cCur[c]),
                               exec |-> cargs[c].exec, by |-> c])
  /\ \E next \in getNextWaitingTask(AddrTask(cCur[c])) :
       /\ cCur' = [cCur EXCEPT ![c] = next]
       /\ cpc' = [cpc EXCEPT ![c] = WalkPc(next)]
  /\ UNCHANGED <<waitQueue, result, error, nextWaiting, wpc, queueHead, ret,
                 readVal, cargs, ranIdx, regOrder, headAtReg, completedBy,
                 firstResult, firstError>>
  /\ UNCHANGED nonFutureVars

(***************************************************************************)
(* Executor: enqueue(job) must eventually be followed by                   *)
(* job.runInFullyEstablishedContext(self).                                 *)
(***************************************************************************)
ExecutorRun(i) ==
  /\ i \in 1..Len(enqLog)
  /\ i \notin ranIdx
  /\ wpc[enqLog[i].task] = "parked"
  /\ ranIdx' = ranIdx \cup {i}
  \* the resumed waiter consumes the result or error on dequeue
  /\ \E v \in ReadOutcome(getStatus(waitQueue)) :
       readVal' = [readVal EXCEPT ![enqLog[i].task] = v]
  /\ wpc' = [wpc EXCEPT ![enqLog[i].task] = "resumed"]
  /\ UNCHANGED <<waitQueue, result, error, nextWaiting, queueHead, ret, cpc,
                 cargs, cCur, enqLog, regOrder, headAtReg,
                 completedBy, firstResult, firstError>>
  /\ UNCHANGED nonFutureVars

WaiterStep(t) ==
  \/ WaitLoad(t)
  \/ WaitCASSuccess(t)
  \/ WaitCASFail(t)

CompleterCall(c) ==
  \E kind \in {Success, Error} : CompleteWrite(c, kind)

CompleterStep(c) ==
  \/ CompleteCASSuccess(c)
  \/ CompleteCASAbort(c)
  \/ CompleteWalk(c)

ExecutorStep == \E i \in 1..MaxWaiters * MaxCompleters : ExecutorRun(i)

Next ==
  \/ \E t \in Waiters : WaiterStep(t)
  \/ \E c \in Completers : CompleterCall(c)
  \/ \E c \in Completers : CompleterStep(c)
  \/ ExecutorStep

Spec == Init /\ [][Next]_vars

\* The scheduling the code relies on: threads inside completeFuture do not
\* all stop for ever, and the executors do not leave handed-over jobs
\* unrun for ever.
LiveSpec ==
  /\ Spec
  /\ WF_vars(\E c \in Completers : CompleterStep(c))
  /\ WF_vars(ExecutorStep)

(***************************************************************************)
(* Status record chain and cancellation.                                   *)
(*                                                                         *)
(* A task pushes and pops its own records; every other thread acquires     *)
(* the IsLocked bit by CAS before it reads or changes the chain, and       *)
(* releases it by writing back the innermost record and the cancelled      *)
(* bit.  A step that needs the lock is enabled only when the CAS can       *)
(* succeed: a failed CAS changes nothing and is retried.                   *)
(***************************************************************************)

\* AsyncTask::isCancelled(): Status.load(relaxed).isCancelled()
AsyncTask_isCancelled(t) == isCancelled(status[t])

\* ActiveTaskStatus::records(): the chain from the innermost record along
\* the parent links.
RECURSIVE recordsN(_, _)
recordsN(a, n) ==
  IF a = nullptr \/ n = 0 \/ AddrRec(a) \notin Records THEN <<>>
  ELSE <<AddrRec(a)>> \o recordsN(recParent[AddrRec(a)], n - 1)

records(Value) == recordsN(getInnermostRecord(Value), Cardinality(Records))

InChain(r, t) == \E i \in 1..Len(records(status[t])) : records(status[t])[i] = r

\* The child tasks reachable through the records of task t.
ChildrenReachable(t) ==
  UNION {RecChildren(r) : r \in {q \in Records : InChain(q, t)}}

\* The position of a walk over the chain of task t: the record it is at,
\* the next child to cancel there, and the records it has been at.
Frame(t, rec, seen) ==
  [task |-> t, rec |-> rec, child |-> FirstChildAt(rec), seen |-> seen]

Top(k) == cstack[k][Len(cstack[k])]
Below(k) == SubSeq(cstack[k], 1, Len(cstack[k]) - 1)
PcAfter(stack) == IF stack = <<>> THEN "done" ELSE "active"

\* cancel(t), called by thread k with the calls in `base` still open.  An
\* already cancelled task is left alone.  Otherwise the CAS sets the
\* cancelled bit and takes the lock, and the walk starts at the innermost
\* record.
CancelEnter(k, t, base) ==
  IF isCancelled(status[t])
  THEN /\ noopCancels' = noopCancels + 1
       /\ cstack' = [cstack EXCEPT ![k] = base]
       /\ kpc' = [kpc EXCEPT ![k] = PcAfter(base)]
       /\ UNCHANGED <<status, effCancels, snap>>
  ELSE /\ ~isLocked(status[t])
       /\ status' = [status EXCEPT
            ![t] = ActiveTaskStatus(getInnermostRecord(status[t]), TRUE, TRUE)]
       /\ cstack' = [cstack EXCEPT
            ![k] = Append(base, Frame(t, getInnermostRecord(status[t]), <<>>))]
       /\ kpc' = [kpc EXCEPT ![k] = "active"]
       /\ effCancels' = [effCancels EXCEPT ![t] = @ + 1]
       /\ snap' = [snap EXCEPT ![t] = ChildrenReachable(t)]
       /\ UNCHANGED noopCancels

\* Thread k calls cancel(t).  The threads are numbered in call order.
CancelCall(k, t) ==
  /\ kpc[k] = "idle"
  /\ \A j \in Cancellers : j < k => kpc[j] # "idle"
  /\ CancelEnter(k, t, <<>>)
  /\ UNCHANGED <<recParent, ipc, handlerRuns, pushStack, nonStatusVars>>

\* The walk is at a record with children left: cancel the next child.
CancelChild(k) ==
  /\ kpc[k] = "active"
  /\ Top(k).child # nullptr
  /\ AddrTask(Top(k).child) \in STasks
  /\ CancelEnter(k, AddrTask(Top(k).child),
       Append(Below(k),
              [Top(k) EXCEPT
                 !.child = ChildFragment_getNextChild(AddrTask(Top(k).child))]))
  /\ UNCHANGED <<recParent, ipc, handlerRuns, pushStack, nonStatusVars>>

\* The walk is done with the children of a record: run its cancellation
\* handler if it is one, and go on to the next older record.
CancelRecord(k) ==
  /\ kpc[k] = "active"
  /\ Top(k).child = nullptr
  /\ Top(k).rec # nullptr
  /\ AddrRec(Top(k).rec) \in Records
  /\ handlerRuns' = [handlerRuns EXCEPT
       ![AddrRec(Top(k).rec)] =
          IF AddrRec(Top(k).rec) = HandlerRec THEN @ + 1 ELSE @]
  /\ cstack' = [cstack EXCEPT
       ![k] = Append(Below(k),
                     Frame(Top(k).task, recParent[AddrRec(Top(k).rec)],
                           Append(Top(k).seen, AddrRec(Top(k).rec))))]
  /\ UNCHANGED <<status, recParent, kpc, ipc, effCancels, noopCancels, snap,
                 pushStack, nonStatusVars>>

\* The walk reached the end of the chain: release the lock, writing back
\* the innermost record and the cancelled bit.
CancelRelease(k) ==
  /\ kpc[k] = "active"
  /\ Top(k).child = nullptr
  /\ Top(k).rec = nullptr
  /\ status' = [status EXCEPT
       ![Top(k).task] =
          ActiveTaskStatus(getInnermostRecord(status[Top(k).task]),
                           TRUE, FALSE)]
  /\ cstack' = [cstack EXCEPT ![k] = Below(k)]
  /\ kpc' = [kpc EXCEPT ![k] = PcAfter(Below(k))]
  /\ UNCHANGED <<recParent, ipc, handlerRuns, effCancels, noopCancels, snap,
                 pushStack, nonStatusVars>>

\* Task t enters a scoped construct: it links record r in front of its
\* chain.
PushRecord(t, r) ==
  /\ r \in RecordsOf(t)
  /\ ~InChain(r, t)
  /\ ~isLocked(status[t])
  /\ recParent' = [recParent EXCEPT ![r] = getInnermostRecord(status[t])]
  /\ status' = [status EXCEPT
       ![t] = ActiveTaskStatus(RecAddr(r), isCancelled(status[t]), FALSE)]
  /\ pushStack' = [pushStack EXCEPT ![t] = Append(@, r)]
  /\ UNCHANGED <<kpc, cstack, ipc, handlerRuns, effCancels, noopCancels,
                 snap, nonStatusVars>>

\* Task t leaves its innermost scoped construct: it unlinks the innermost
\* record.
PopRecord(t) ==
  /\ ~isLocked(status[t])
  /\ getInnermostRecord(status[t]) # nullptr
  /\ AddrRec(getInnermostRecord(status[t])) \in Records
  /\ status' = [status EXCEPT
       ![t] = ActiveTaskStatus(
                recParent[AddrRec(getInnermostRecord(status[t]))],
                isCancelled(status[t]), FALSE)]
  /\ pushStack' = [pushStack EXCEPT ![t] = SubSeq(@, 1, Len(@) - 1)]
  /\ UNCHANGED <<recParent, kpc, cstack, ipc, handlerRuns, effCancels,
                 noopCancels, snap, nonStatusVars>>

\* A thread other than the task acquires the status lock of task t to
\* read its chain ...
InspectAcquire(t) ==
  /\ ipc = 0
  /\ ~isLocked(status[t])
  /\ status' = [status EXCEPT
       ![t] = ActiveTaskStatus(getInnermostRecord(status[t]),
                               isCancelled(status[t]), TRUE)]
  /\ ipc' = t
  /\ UNCHANGED <<recParent, kpc, cstack, handlerRuns, effCancels,
                 noopCancels, snap, pushStack, nonStatusVars>>

\* ... and releases it.
InspectRelease ==
  /\ ipc # 0
  /\ status' = [status EXCEPT
       ![ipc] = ActiveTaskStatus(getInnermostRecord(status[ipc]),
                                 isCancelled(status[ipc]), FALSE)]
  /\ ipc' = 0
  /\ UNCHANGED <<recParent, kpc, cstack, handlerRuns, effCancels,
                 noopCancels, snap, pushStack, nonStatusVars>>

CancellerStep(k) == CancelChild(k) \/ CancelRecord(k) \/ CancelRelease(k)

StatusNext ==
  \/ \E k \in Cancellers, t \in STasks : CancelCall(k, t)
  \/ \E k \in Cancellers : CancellerStep(k)
  \/ \E t \in STasks, r \in Records : PushRecord(t, r)
  \/ \E t \in STasks : PopRecord(t)
  \/ \E t \in STasks : InspectAcquire(t)
  \/ InspectRelease

StatusSpec == Init /\ [][StatusNext]_vars

\* The scheduling cancellation relies on: a thread inside cancel goes on,
\* its CAS for a lock that is free again and again succeeds at last, and
\* the inspecting thread does not keep a lock for ever.
StatusLiveSpec ==
  /\ StatusSpec
  /\ SF_vars(\E k \in Cancellers : CancellerStep(k))
  /\ WF_vars(InspectRelease)

\* The address of the innermost record a task has pushed and not popped.
InnermostPushed(t) ==
  IF pushStack[t] = <<>> THEN nullptr
  ELSE RecAddr(pushStack[t][Len(pushStack[t])])

(***************************************************************************)
(* A thread other than the task that changes the chain of a task: it       *)
(* acquires the lock bit by CAS, links or unlinks records at the head of   *)
(* the chain while the chain is stable, and on release writes back the     *)
(* innermost-record pointer of its section and the cancelled bit.          *)
(***************************************************************************)
\* The status word a release writes: the pointer the section ends with
\* (not the one it found) and the cancelled bit, the lock bit clear.
releaseStatus_stale(found, record, cancelled) ==
  ActiveTaskStatus(found, cancelled, FALSE)

releaseStatus(found, record, cancelled) ==
  ActiveTaskStatus(record, cancelled, FALSE)

MutateAcquire(t) ==
  /\ mutation.task = 0
  /\ ~isLocked(status[t])
  /\ status' = [status EXCEPT
       ![t] = ActiveTaskStatus(getInnermostRecord(status[t]),
                               isCancelled(status[t]), TRUE)]
  /\ mutation' = [task |-> t, found |-> getInnermostRecord(status[t]),
                  record |-> getInnermostRecord(status[t]), released |-> 0]
  /\ UNCHANGED <<recParent, kpc, cstack, ipc, handlerRuns, effCancels,
                 noopCancels, snap, pushStack>>
  /\ UNCHANGED <<futureVars, groupVars, localVars, jobVars, callVars,
                 syntaxVars, parseVars, moreVars>>

\* Inside the section: link record r in front of the chain.
MutatePush(r) ==
  /\ mutation.task # 0
  /\ r \in RecordsOf(mutation.task)
  /\ \A i \in 1..Len(pushStack[mutation.task]) :
       pushStack[mutation.task][i] # r
  /\ recParent' = [recParent EXCEPT ![r] = mutation.record]
  /\ mutation' = [mutation EXCEPT !.record = RecAddr(r)]
  /\ pushStack' = [pushStack EXCEPT ![mutation.task] = Append(@, r)]
  /\ UNCHANGED <<status, kpc, cstack, ipc, handlerRuns, effCancels,
                 noopCancels, snap>>
  /\ UNCHANGED <<futureVars, groupVars, localVars, jobVars, callVars,
                 syntaxVars, parseVars, moreVars>>

\* Inside the section: unlink the innermost record.
MutatePop ==
  /\ mutation.task # 0
  /\ mutation.record # nullptr
  /\ AddrRec(mutation.record) \in Records
  /\ mutation' = [mutation EXCEPT
       !.record = recParent[AddrRec(mutation.record)]]
  /\ pushStack' = [pushStack EXCEPT
       ![mutation.task] = SubSeq(@, 1, Len(@) - 1)]
  /\ UNCHANGED <<status, recParent, kpc, cstack, ipc, handlerRuns,
                 effCancels, noopCancels, snap>>
  /\ UNCHANGED <<futureVars, groupVars, localVars, jobVars, callVars,
                 syntaxVars, parseVars, moreVars>>

\* Release: clear the lock bit, publish the pointer of the section.
MutateRelease ==
  /\ mutation.task # 0
  /\ status' = [status EXCEPT
       ![mutation.task] =
          releaseStatus(mutation.found, mutation.record,
                        isCancelled(status[mutation.task]))]
  /\ mutation' = [NoMutation EXCEPT !.released = mutation.task]
  /\ UNCHANGED <<recParent, kpc, cstack, ipc, handlerRuns, effCancels,
                 noopCancels, snap, pushStack>>
  /\ UNCHANGED <<futureVars, groupVars, localVars, jobVars, callVars,
                 syntaxVars, parseVars, moreVars>>

\* The tasks that have status records to link.
RecordOwners == {t \in STasks : RecordsOf(t) # {}}

\* Cancelling threads and the mutating thread: every record is linked and
\* unlinked inside a locked section.
LockNext ==
  \/ \E k \in Cancellers, t \in STasks : CancelCall(k, t)
  \/ \E k \in Cancellers : CancellerStep(k)
  \/ \E t \in RecordOwners : MutateAcquire(t)
  \/ \E r \in Records : MutatePush(r)
  \/ MutatePop
  \/ MutateRelease

LockSpec == Init /\ [][LockNext]_vars

(***************************************************************************)
(* Construction of status values: any record pointer of the word that is   *)
(* aligned as TaskStatusRecord is, with any cancelled and locked flags.    *)
(***************************************************************************)
RecordPointers == {p \in 0..WordMax : p % RecordAlign = 0}

\* ActiveTaskStatus(innermostRecord, cancelled, locked)
NewStatus(innermostRecord, cancelled, locked) ==
  /\ statusWord' =
       [record |-> innermostRecord, cancelled |-> cancelled,
        locked |-> locked,
        Value |-> ActiveTaskStatus(innermostRecord, cancelled, locked)]
  /\ UNCHANGED <<coreVars, childVars, suspendVars>>

\* ActiveTaskStatus()
NewDefaultStatus ==
  /\ statusWord # DefaultStatus
  /\ statusWord' = DefaultStatus
  /\ UNCHANGED <<coreVars, childVars, suspendVars>>

PackNext ==
  \/ \E r \in RecordPointers, c \in BOOLEAN, l \in BOOLEAN : NewStatus(r, c, l)
  \/ NewDefaultStatus

PackSpec == Init /\ [][PackNext]_vars

(***************************************************************************)
(* Child tasks.  A child task carries a ChildFragment with its parent and  *)
(* the next child of the parent's list; the list starts in a child task    *)
(* record of the parent.  Tasks are named by their numbers here.           *)
(***************************************************************************)
\* ChildFragment::ChildFragment(parent), getParent, getNextChild,
\* setNextChild.
ChildFragment_new_noparent(parent) ==
  [Parent |-> nullptr, NextChild |-> nullptr, made |-> TRUE]

ChildFragment_new(parent) ==
  [Parent |-> parent, NextChild |-> nullptr, made |-> TRUE]

getParent(fragment) == fragment.Parent
getNextChild(fragment) == fragment.NextChild

setNextChild(fragment, task) == [fragment EXCEPT !.NextChild = task]

\* The root and the children created so far.
InFamily(t) == t = 1 \/ fragments[t].made

\* The child whose NextChild is c, in the list of c's parent.
Predecessor(c) ==
  CHOOSE d \in FamilyTasks : fragments[d].made /\ getNextChild(fragments[d]) = c

\* Task parent creates child task c and links it in front of the list of
\* its child task record.
CreateChild(parent, c) ==
  /\ InFamily(parent) /\ ~InFamily(c)
  /\ fragments' =
       [fragments EXCEPT
          ![c] = setNextChild(ChildFragment_new(parent), FirstChild[parent])]
  /\ FirstChild' = [FirstChild EXCEPT ![parent] = c]
  /\ lastLink' = [caller |-> parent, fragment |-> c,
                  task |-> FirstChild[parent]]
  /\ UNCHANGED <<coreVars, packVars, suspendVars>>

\* Task parent takes its child c, which has no children of its own left,
\* out of the list: the child before it, if any, is linked to the one
\* after it.
RemoveChild(parent, c) ==
  /\ fragments[c].made /\ getParent(fragments[c]) = parent
  /\ FirstChild[c] = nullptr
  /\ \/ FirstChild[parent] = c \/ \E d \in FamilyTasks :
          fragments[d].made /\ getNextChild(fragments[d]) = c
  /\ IF FirstChild[parent] = c
     THEN /\ FirstChild' =
               [FirstChild EXCEPT ![parent] = getNextChild(fragments[c])]
          /\ UNCHANGED <<fragments, lastLink>>
     ELSE /\ fragments' =
               [fragments EXCEPT
                  ![Predecessor(c)] =
                     setNextChild(@, getNextChild(fragments[c]))]
          /\ lastLink' = [caller |-> parent, fragment |-> Predecessor(c),
                          task |-> getNextChild(fragments[c])]
          /\ UNCHANGED FirstChild
  /\ UNCHANGED <<coreVars, packVars, suspendVars>>

ChildNext ==
  \/ \E parent \in FamilyTasks, c \in FamilyTasks : CreateChild(parent, c)
  \/ \E parent \in FamilyTasks, c \in FamilyTasks : RemoveChild(parent, c)

ChildSpec == Init /\ [][ChildNext]_vars

(***************************************************************************)
(* Task groups.                                                            *)
(*                                                                         *)
(* A child task completes its future and, if it is a group child, offers   *)
(* itself to its group.  The parent consumes the offered completions with  *)
(* group.next().                                                           *)
(***************************************************************************)
\* The TaskGroup of the root task.
TheGroup == 1

\* JobFlags::task_isGroupChildTask()
task_isGroupChildTask(flags) == flags.isGroupChildTask

\* AsyncTask::hasGroupChildFragment()
hasGroupChildFragment_never(Flags) == FALSE
hasGroupChildFragment(Flags) == task_isGroupChildTask(Flags)

\* GroupChildFragment::getGroup() of the fragment made by group.add.
getGroup(t) == IF JobFlagsOf(t).isGroupChildTask THEN TheGroup ELSE nullptr

\* The child's future completes with Success or Error.
GChildComplete(c, kind) ==
  /\ gpc[c] = "running"
  /\ gpc' = [gpc EXCEPT ![c] = "completed"]
  /\ gkind' = [gkind EXCEPT ![c] = kind]
  /\ UNCHANGED <<pending, nextState, delivered, offerLog, returned,
                 nonGroupVars>>

\* group.offer(c, result_or_error): the completion goes to the parked
\* parent if there is one, and into the pending queue otherwise.
GroupOffer(g, c) ==
  /\ g = TheGroup
  /\ offerLog' = Append(offerLog, c)
  /\ IF nextState = "parked"
     THEN /\ delivered' = c
          /\ nextState' = "resumable"
          /\ UNCHANGED pending
     ELSE /\ pending' = Append(pending, c)
          /\ UNCHANGED <<delivered, nextState>>

\* After completing its future, a group child offers itself to its group.
GChildOffer(c) ==
  /\ gpc[c] = "completed"
  /\ gpc' = [gpc EXCEPT ![c] = "done"]
  /\ IF hasGroupChildFragment(JobFlagsOf(c))
     THEN GroupOffer(getGroup(c), c)
     ELSE UNCHANGED <<pending, nextState, delivered, offerLog>>
  /\ UNCHANGED <<gkind, returned, nonGroupVars>>

\* group.next(), called by the parent: it returns the oldest pending
\* completion; with none pending it signals exhaustion if every child has
\* been returned, and parks the parent otherwise.
GroupNext ==
  /\ nextState = "idle"
  /\ IF pending # <<>>
     THEN /\ returned' = Append(returned, Head(pending))
          /\ pending' = Tail(pending)
          /\ UNCHANGED nextState
     ELSE /\ nextState' = IF Len(returned) = Cardinality(GroupChildren)
                          THEN "exhausted" ELSE "parked"
          /\ UNCHANGED <<returned, pending>>
  /\ UNCHANGED <<gpc, gkind, delivered, offerLog, nonGroupVars>>

\* The parent, resumed by an offer, returns from next() with the
\* completion it was handed.
GroupNextResume ==
  /\ nextState = "resumable"
  /\ returned' = Append(returned, delivered)
  /\ delivered' = 0
  /\ nextState' = "idle"
  /\ UNCHANGED <<gpc, gkind, pending, offerLog, nonGroupVars>>

GChildStep(c) ==
  \/ \E kind \in {Success, Error} : GChildComplete(c, kind)
  \/ GChildOffer(c)

GroupNextStep == GroupNext \/ GroupNextResume

GroupNextAll ==
  \/ \E c \in GTasks : GChildStep(c)
  \/ GroupNextStep

GroupSpec == Init /\ [][GroupNextAll]_vars

\* Child tasks keep running, and a resumed parent runs.
GroupLiveSpec ==
  /\ GroupSpec
  /\ WF_vars(\E c \in GTasks : GChildStep(c))
  /\ WF_vars(GroupNextResume)

(***************************************************************************)
(* Task-local values.                                                      *)
(*                                                                         *)
(* AsyncTask::Local is the head of a singly linked stack of bindings; a    *)
(* child task is created with the bindings its parent has at that time.    *)
(***************************************************************************)
KeyTypes == {"K1", "K2"}
InheritPolicies == {"Default", "Never"}

\* The value a task binds at a given depth: different for every push that
\* can be live at the same time.
LocalValue(t, depth) == (t - 1) * (MaxLocalDepth + 1) + depth

\* TaskLocal::Storage::pushValue: prepend a binding frame.
pushValue(stack, keyType, value) ==
  <<[key |-> keyType, value |-> value]>> \o stack

\* TaskLocal::Storage::popValue: remove the topmost binding frame.
popValue(stack) == Tail(stack)

\* The innermost binding of keyType in a stack, or Nothing.
RECURSIVE findValue(_, _)
findValue(stack, keyType) ==
  IF stack = <<>> THEN Nothing
  ELSE IF Head(stack).key = keyType THEN Head(stack).value
  ELSE findValue(Tail(stack), keyType)

\* TaskLocal::Storage::getValue: walk the task's stack and, unless the
\* policy forbids it, the bindings inherited from the parent.
getValue(t, keyType, inherit) ==
  IF findValue(Local[t], keyType) # Nothing
  THEN findValue(Local[t], keyType)
  ELSE IF t = LocalChild /\ inherit = "Default"
       THEN findValue(inherited, keyType)
       ELSE Nothing

\* AsyncTask::localValuePush
localValuePush_append(t, keyType, value) ==
  Local[t] \o <<[key |-> keyType, value |-> value]>>
localValuePush(t, keyType, value) == pushValue(Local[t], keyType, value)

\* AsyncTask::localValueGet
localValueGet(t, keyType, inherit) == getValue(t, keyType, inherit)

\* AsyncTask::localValuePop
localValuePop(t) == popValue(Local[t])

Created(t) == t = Root \/ childCreated

LocalPush(t, keyType) ==
  /\ Created(t)
  /\ Len(Local[t]) < MaxLocalDepth
  /\ Local' = [Local EXCEPT
       ![t] = localValuePush(t, keyType, LocalValue(t, Len(Local[t]) + 1))]
  /\ pushLog' = [pushLog EXCEPT
       ![t] = Append(@, [key |-> keyType,
                         value |-> LocalValue(t, Len(Local[t]) + 1)])]
  /\ lastGet' = NoGet
  /\ UNCHANGED <<inherited, childCreated, pushLogAtCreate, nonLocalVars>>

LocalPop(t) ==
  /\ Created(t)
  /\ Local[t] # <<>>
  /\ Local' = [Local EXCEPT ![t] = localValuePop(t)]
  /\ pushLog' = [pushLog EXCEPT ![t] = SubSeq(@, 1, Len(@) - 1)]
  /\ lastGet' = NoGet
  /\ UNCHANGED <<inherited, childCreated, pushLogAtCreate, nonLocalVars>>

LocalGet(t, keyType, inherit) ==
  /\ Created(t)
  /\ lastGet' = [task |-> t, key |-> keyType, inherit |-> inherit,
                 value |-> localValueGet(t, keyType, inherit)]
  /\ UNCHANGED <<Local, inherited, childCreated, pushLog, pushLogAtCreate,
                 nonLocalVars>>

\* The parent creates the child task, which inherits the parent's
\* bindings of that moment.
LocalChildCreate ==
  /\ ~childCreated
  /\ childCreated' = TRUE
  /\ inherited' = Local[Root]
  /\ pushLogAtCreate' = pushLog[Root]
  /\ lastGet' = NoGet
  /\ UNCHANGED <<Local, pushLog, nonLocalVars>>

LocalNext ==
  \/ \E t \in LTasks, keyType \in KeyTypes : LocalPush(t, keyType)
  \/ \E t \in LTasks : LocalPop(t)
  \/ \E t \in LTasks, keyType \in KeyTypes, inherit \in InheritPolicies :
       LocalGet(t, keyType, inherit)
  \/ LocalChildCreate

LocalSpec == Init /\ [][LocalNext]_vars

(***************************************************************************)
(* Job and AsyncTask objects: construction, dispatch, trailing fragments.  *)
(***************************************************************************)
BOOL == {TRUE, FALSE}

\* JobFlags: {is_async_task, is_child_task, is_group_child, is_future}.
JobFlags ==
  [isAsyncTask : BOOL, isChildTask : BOOL, isGroupChildTask : BOOL,
   isFuture : BOOL]

Flags_isAsyncTask(flags) == flags.isAsyncTask
task_isChildTask(flags) == flags.isChildTask
task_isFuture(flags) == flags.isFuture

\* Result types of a future: value-witness size and alignment.
ResultTypes ==
  {[vw_size |-> 0, vw_alignment |-> 1],
   [vw_size |-> 8, vw_alignment |-> 8],
   [vw_size |-> 16, vw_alignment |-> 16]}

\* The AsyncContext a task is created with.
InitialContext == 1

\* Sizes of the objects, in bytes.
SizeofJob == 4 * PointerSize
SizeofAsyncTask == 14 * PointerSize
SizeofChildFragment == 2 * PointerSize
SizeofGroupChildFragment == PointerSize
SizeofFutureFragment == 3 * PointerSize

\* Job::isAsyncTask()
isAsyncTask(j) == Flags_isAsyncTask(j.Flags)

\* Job::Job(JobFlags, JobInvokeFunction *): the object, and whether its
\* assertion holds.
Job_simple(flags) ==
  [class |-> "Job", Flags |-> flags, entry |-> "RunJob",
   ResumeContext |-> nullptr, resultType |-> CHOOSE r \in ResultTypes : TRUE]

Job_simple_assert(flags) == ~Flags_isAsyncTask(flags)

\* AsyncTask::AsyncTask(metadata, flags, run, initialContext), through
\* Job::Job(JobFlags, TaskContinuationFunction *).
AsyncTask_new(flags, initialContext, resultType) ==
  [class |-> "AsyncTask", Flags |-> flags, entry |-> "ResumeTask",
   ResumeContext |-> initialContext, resultType |-> resultType]

AsyncTask_new_assert(flags) == Flags_isAsyncTask(flags)

\* AsyncTask::classof(const Job *)
classof_always(j) == TRUE
classof(j) == isAsyncTask(j)

\* AsyncTask::runInFullyEstablishedContext:
\* ResumeTask(this, currentExecutor, ResumeContext)
AsyncTask_runInFullyEstablishedContext_initial(j, currentExecutor) ==
  [calledAs |-> "ResumeTask", stored |-> j.entry,
   args |-> <<"self", currentExecutor, FirstContext>>]

AsyncTask_runInFullyEstablishedContext(j, currentExecutor) ==
  [calledAs |-> "ResumeTask", stored |-> j.entry,
   args |-> <<"self", currentExecutor, j.ResumeContext>>]

\* Job::runSimpleInFullyEstablishedContext: RunJob(this, currentExecutor)
runSimpleInFullyEstablishedContext(j, currentExecutor) ==
  [calledAs |-> "RunJob", stored |-> j.entry,
   args |-> <<"self", currentExecutor>>]

\* Job::runInFullyEstablishedContext
runInFullyEstablishedContext(j, currentExecutor) ==
  IF classof(j)
  THEN AsyncTask_runInFullyEstablishedContext(j, currentExecutor)
  ELSE runSimpleInFullyEstablishedContext(j, currentExecutor)

\* AsyncTask::hasChildFragment, AsyncTask::isFuture
hasChildFragment(Flags) == task_isChildTask(Flags)
isFuture(Flags) == task_isFuture(Flags)

\* AsyncTask::childFragment(): offset from `this`.
childFragment(Flags) == SizeofAsyncTask

\* AsyncTask::groupChildFragment(): offset from `this`.
groupChildFragment_nochild(Flags) == SizeofAsyncTask
groupChildFragment(Flags) ==
  SizeofAsyncTask
    + (IF hasChildFragment(Flags) THEN SizeofChildFragment ELSE 0)

\* AsyncTask::futureFragment(): offset from `this`.
futureFragment(Flags) ==
  SizeofAsyncTask
    + (IF hasChildFragment(Flags) THEN SizeofChildFragment ELSE 0)
    + (IF hasGroupChildFragment(Flags) THEN SizeofGroupChildFragment ELSE 0)

\* FutureFragment::storageOffset, FutureFragment::fragmentSize
storageOffset(resultType) ==
  BitAnd(SizeofFutureFragment + resultType.vw_alignment - 1,
         BitNot(resultType.vw_alignment - 1))

fragmentSize(resultType) == storageOffset(resultType) + resultType.vw_size

Fragments == {"child", "groupChild", "future"}

\* The assertion at the head of each accessor, and the accessor's result.
FragmentPresent(Flags, f) ==
  IF f = "child" THEN hasChildFragment(Flags)
  ELSE IF f = "groupChild" THEN hasGroupChildFragment(Flags)
  ELSE isFuture(Flags)

FragmentOffset(Flags, f) ==
  IF f = "child" THEN childFragment(Flags)
  ELSE IF f = "groupChild" THEN groupChildFragment(Flags)
  ELSE futureFragment(Flags)

\* A plain job is constructed with the simple entrypoint.
ConstructJob(flags) ==
  /\ job = NoJob
  /\ ~asserted
  /\ IF Job_simple_assert(flags)
     THEN job' = Job_simple(flags) /\ UNCHANGED asserted
     ELSE asserted' = TRUE /\ UNCHANGED job
  /\ UNCHANGED <<invocations, lastFragment, nonJobVars>>

\* A task is constructed with the task entrypoint.
ConstructTask(flags, resultType) ==
  /\ job = NoJob
  /\ ~asserted
  /\ IF AsyncTask_new_assert(flags)
     THEN job' = AsyncTask_new(flags, InitialContext, resultType)
          /\ UNCHANGED asserted
     ELSE asserted' = TRUE /\ UNCHANGED job
  /\ UNCHANGED <<invocations, lastFragment, nonJobVars>>

\* An executor that has established its context runs the job.
JobRun(currentExecutor) ==
  /\ job # NoJob
  /\ ~asserted
  /\ Len(invocations) < MaxRuns
  /\ invocations' =
       Append(invocations, runInFullyEstablishedContext(job, currentExecutor))
  /\ UNCHANGED <<job, asserted, lastFragment, nonJobVars>>

\* A fragment accessor is called on the task.
AccessFragment(f) ==
  /\ job # NoJob
  /\ job.class = "AsyncTask"
  /\ ~asserted
  /\ IF FragmentPresent(job.Flags, f)
     THEN /\ lastFragment' =
               [fragment |-> f, offset |-> FragmentOffset(job.Flags, f)]
          /\ UNCHANGED asserted
     ELSE asserted' = TRUE /\ UNCHANGED lastFragment
  /\ UNCHANGED <<job, invocations, nonJobVars>>

JobNext ==
  \/ \E flags \in JobFlags : ConstructJob(flags)
  \/ \E flags \in JobFlags, resultType \in ResultTypes :
       ConstructTask(flags, resultType)
  \/ \E e \in Executors : JobRun(e)
  \/ \E f \in Fragments : AccessFragment(f)

JobSpec == Init /\ [][JobNext]_vars

(***************************************************************************)
(* Async calls.  A task started by the async main runner runs an async     *)
(* function; an async function either calls an async function and returns  *)
(* when that call has returned to it, or runs its body and returns.  Each  *)
(* activation has an AsyncContext; a return is resumeParent on it.         *)
(***************************************************************************)
\* The task the main runner starts, and the executors it may run on.
TheTask == 1
CallExecutors == {1, 2}

\* The ways the tests call an async function: directly, through a value
\* of a throwing function type the non-throwing function was converted
\* to, and as a method of a resilient class.
CallKinds == {"direct", "throwing_type", "class_method"}
CallArgs == {9999, 1}

\* The continuations a context resumes: the caller after its call, and
\* the main runner's completion of the task.
ResumeCaller == "resume_caller"
CompleteTask == "complete_task"

\* AsyncContext::AsyncContext.
AsyncContext_new_noparent(flags, resumeParent, resumeParentExecutor, parent) ==
  [Parent |-> nullptr, ResumeParent |-> resumeParent,
   ResumeParentExecutor |-> resumeParentExecutor, Flags |-> flags]

AsyncContext_new(flags, resumeParent, resumeParentExecutor, parent) ==
  [Parent |-> parent, ResumeParent |-> resumeParent,
   ResumeParentExecutor |-> resumeParentExecutor, Flags |-> flags]

\* AsyncContext::resumeParent: the call of the stored continuation.
resumeParent_self(context, task, executor) ==
  [fn |-> contexts[context].ResumeParent, task |-> task,
   executor |-> executor, context |-> context]

resumeParent(context, task, executor) ==
  [fn |-> contexts[context].ResumeParent, task |-> task,
   executor |-> executor, context |-> contexts[context].Parent]

Activation(kind, arg) ==
  [kind |-> kind, arg |-> arg, pc |-> "entry", bodyRuns |-> 0,
   successResumes |-> 0, errorResumes |-> 0, error |-> nullptr]

\* _runAsyncMain: the task is started on an executor with the root
\* context, in which the function it was given runs.
RunAsyncMain(executor) ==
  /\ contexts = <<>>
  /\ contexts' = <<AsyncContext_new("Ordinary", CompleteTask, executor,
                                    nullptr)>>
  /\ activations' = <<Activation("main", 0)>>
  /\ resumeContext' = 1
  /\ UNCHANGED <<callLog, printed, taskDone, nonCallVars>>

\* apply / try_apply of an async function: the callee gets a context whose
\* parent is the caller's and whose continuation resumes the caller.
AsyncCall(kind, arg, executor) ==
  /\ resumeContext # nullptr
  /\ activations[resumeContext].pc = "entry"
  /\ Len(contexts) <= MaxCallDepth
  /\ contexts' = Append(contexts,
                        AsyncContext_new("Ordinary", ResumeCaller, executor,
                                         resumeContext))
  /\ activations' =
       Append([activations EXCEPT ![resumeContext].pc = "awaiting",
                                  ![resumeContext].bodyRuns = @ + 1],
              Activation(kind, arg))
  /\ resumeContext' = Len(contexts) + 1
  /\ UNCHANGED <<callLog, printed, taskDone, nonCallVars>>

\* The body of a function that calls nothing: it prints its argument.
RunBody ==
  /\ resumeContext # nullptr
  /\ activations[resumeContext].pc = "entry"
  /\ activations' = [activations EXCEPT ![resumeContext].pc = "body_done",
                                        ![resumeContext].bodyRuns = @ + 1]
  /\ printed' = Append(printed, activations[resumeContext].arg)
  /\ UNCHANGED <<contexts, resumeContext, callLog, taskDone, nonCallVars>>

\* The continuation resume_caller run on the caller's context: a caller
\* that called through a throwing function type goes to its error block
\* if the callee left an error, to its success block otherwise.
ResumedCaller(acts, caller, callee) ==
  IF caller = nullptr THEN acts
  ELSE IF acts[callee].error # nullptr
       THEN [acts EXCEPT ![caller].pc = "failed",
                         ![caller].errorResumes = @ + 1]
       ELSE [acts EXCEPT ![caller].pc = "resumed",
                         ![caller].successResumes = @ + 1]

\* return: the function returns through resumeParent on its context, on
\* the executor it is running on.
Return(executor) ==
  /\ resumeContext # nullptr
  /\ activations[resumeContext].pc \in {"body_done", "resumed"}
  /\ LET call == resumeParent(resumeContext, TheTask, executor)
         left == [activations EXCEPT ![resumeContext].pc = "returned"]
     IN /\ callLog' = Append(callLog,
                             [on |-> resumeContext, task |-> TheTask,
                              executor |-> executor, call |-> call])
        /\ resumeContext' = call.context
        /\ IF call.fn = CompleteTask
           THEN /\ taskDone' = taskDone + 1
                /\ activations' = left
           ELSE /\ taskDone' = taskDone
                /\ activations' =
                     ResumedCaller(left, call.context, resumeContext)
  /\ UNCHANGED <<contexts, printed, nonCallVars>>

CallNext ==
  \/ \E executor \in CallExecutors : RunAsyncMain(executor)
  \/ \E kind \in CallKinds, arg \in CallArgs, executor \in CallExecutors :
       AsyncCall(kind, arg, executor)
  \/ RunBody
  \/ \E executor \in CallExecutors : Return(executor)

CallSpec == Init /\ [][CallNext]_vars

(***************************************************************************)
(* A started task that waits on a future, enters scoped constructs and is  *)
(* cancelled: the steps of the task started by the main runner, of the     *)
(* waitFuture calls of the tasks, of their record pushes and of the        *)
(* cancelling threads.  The tasks wait once the main runner has started    *)
(* the root task, in every interleaving of their waitFuture calls; they    *)
(* are cancelled while they are suspended on the future.                   *)
(***************************************************************************)
Started == resumeContext # nullptr
Suspended == \A t \in Waiters : wpc[t] = "parked"

\* The main executor, on which the main runner starts the root task.
MainExecutor == ExecutorArg(1)

CoopNext ==
  \/ RunAsyncMain(MainExecutor)
  \/ Started /\ \E t \in Waiters : WaiterStep(t)
  \/ Suspended /\ \E t \in STasks, r \in Records : PushRecord(t, r)
  \/ Suspended /\ \E k \in Cancellers, t \in STasks : CancelCall(k, t)
  \/ \E k \in Cancellers : CancellerStep(k)

CoopSpec == Init /\ [][CoopNext]_vars

\* A task that can take a step eventually takes one.
CallLiveSpec == CallSpec /\ WF_vars(CallNext)

(***************************************************************************)
(* Suspension and resumption.  A running task suspends by waiting on a     *)
(* future that is still executing, by yielding to its parent or by hopping *)
(* to an executor; it commits its current activation record to            *)
(* ResumeContext first.  A suspended task is run again by the executor it  *)
(* was enqueued on, through runInFullyEstablishedContext.                  *)
(***************************************************************************)
\* Job::NextWaitingTaskIndex and Job::getNextWaitingTask() on the
\* SchedulerPrivate words of a job: the values a read of the link can
\* return, any word at all while the link has never been written.
NextWaitingTaskIndex == 0
NextWaitingTask_otherslot(schedulerPrivate) ==
  IF schedulerPrivate[2] = NeverWritten
  THEN 0..WordMax ELSE {schedulerPrivate[2]}
NextWaitingTask(schedulerPrivate) ==
  IF schedulerPrivate[NextWaitingTaskIndex + 1] = NeverWritten
  THEN 0..WordMax ELSE {schedulerPrivate[NextWaitingTaskIndex + 1]}
setNextWaitingTask(schedulerPrivate, task) ==
  [schedulerPrivate EXCEPT ![NextWaitingTaskIndex + 1] = task]

\* The word completeFuture installs: the new status with no waiters.
completeFuture_newQueueHead(newStatus, oldQueueHead) ==
  WaitQueueItem_get(newStatus, nullptr)

\* The task as the job an executor runs.
AsJob(t) == [entry |-> "resume", ResumeContext |-> taskResumeContext[t]]

\* The suspension point: the activation record the task is executing in
\* is committed to ResumeContext.
Commit(t, kind) ==
  /\ taskResumeContext' =
       [taskResumeContext EXCEPT ![t] = currentContext[t]]
  /\ suspension' =
       [suspension EXCEPT ![t] = [kind |-> kind,
                                  context |-> currentContext[t]]]
  /\ lastResume' = [lastResume EXCEPT ![t] = NoResume]

\* The running task moves on to another activation record (a call or a
\* return).
EnterContext(t, context) ==
  /\ taskPc[t] = "running"
  /\ context # currentContext[t]
  /\ currentContext' = [currentContext EXCEPT ![t] = context]
  /\ lastResume' = [lastResume EXCEPT ![t] = NoResume]
  /\ UNCHANGED <<futureQueue, SchedulerPrivate, taskPc, waitingOn,
                 localHead, taskResumeContext, suspension, runningOn,
                 enqueuedOn, walkCursor, walkExecutor>>
  /\ UNCHANGED <<coreVars, packVars, childVars>>

\* waitFuture, steps 1 to 3a, on the word it observed: a future that is
\* not executing returns its status and the task runs on; otherwise the
\* task links itself in front of the head it observed.
SuspendObserve(t, f, head) ==
  IF getStatus(head) # Executing
  THEN /\ taskPc' = [taskPc EXCEPT ![t] = "running"]
       /\ waitingOn' = [waitingOn EXCEPT ![t] = 0]
       /\ localHead' = [localHead EXCEPT ![t] = 0]
       /\ UNCHANGED SchedulerPrivate
  ELSE /\ taskPc' = [taskPc EXCEPT ![t] = "waiting"]
       /\ waitingOn' = [waitingOn EXCEPT ![t] = f]
       /\ localHead' = [localHead EXCEPT ![t] = head]
       /\ SchedulerPrivate' =
            [SchedulerPrivate EXCEPT
               ![t] = setNextWaitingTask(@, getTask(head))]

\* The running task calls waitFuture on future f.
WaitFuture(t, f) ==
  /\ taskPc[t] = "running"
  /\ Commit(t, "wait")
  /\ SuspendObserve(t, f, futureQueue[f])
  /\ UNCHANGED <<futureQueue, currentContext, runningOn, enqueuedOn,
                 walkCursor, walkExecutor>>
  /\ UNCHANGED <<coreVars, packVars, childVars>>

\* waitFuture, step 3b: the CAS succeeds, waitFuture returns Executing and
\* the thread leaves the task.
WaitFutureCAS(t) ==
  /\ taskPc[t] = "waiting"
  /\ futureQueue[waitingOn[t]] = localHead[t]
  /\ futureQueue' = [futureQueue EXCEPT
                       ![waitingOn[t]] =
                          WaitQueueItem_get(Executing, TaskAddr(t))]
  /\ taskPc' = [taskPc EXCEPT ![t] = "parked"]
  /\ localHead' = [localHead EXCEPT ![t] = 0]
  /\ runningOn' = [runningOn EXCEPT ![t] = {}]
  /\ UNCHANGED <<SchedulerPrivate, waitingOn, currentContext,
                 taskResumeContext, suspension, lastResume, enqueuedOn,
                 walkCursor, walkExecutor>>
  /\ UNCHANGED <<coreVars, packVars, childVars>>

\* waitFuture, step 3c: the CAS fails and the loop goes on with the word
\* the CAS observed.
WaitFutureRetry(t) ==
  /\ taskPc[t] = "waiting"
  /\ futureQueue[waitingOn[t]] # localHead[t]
  /\ SuspendObserve(t, waitingOn[t], futureQueue[waitingOn[t]])
  /\ UNCHANGED <<futureQueue, currentContext, taskResumeContext, suspension,
                 lastResume, runningOn, enqueuedOn, walkCursor,
                 walkExecutor>>
  /\ UNCHANGED <<coreVars, packVars, childVars>>

\* enqueue(task) on an executor.
Enqueue(t, executor) ==
  /\ enqueuedOn' = [enqueuedOn EXCEPT ![t] = @ \cup {executor}]
  /\ taskPc' = [taskPc EXCEPT
                  ![t] = IF @ = "parked" THEN "enqueued" ELSE @]

\* The first future completes with a result, the second with an error.
CompletionOf(f) == IF f = 1 THEN Success ELSE Error

\* completeFuture, step 2: the CAS from {Executing, head} to the new
\* status detaches the list of waiters.
CompleteFuture(f, newStatus, executor) ==
  /\ getStatus(futureQueue[f]) = Executing
  /\ futureQueue' =
       [futureQueue EXCEPT
          ![f] = completeFuture_newQueueHead(newStatus, futureQueue[f])]
  /\ walkCursor' = [walkCursor EXCEPT ![f] = getTask(futureQueue[f])]
  /\ walkExecutor' = [walkExecutor EXCEPT ![f] = executor]
  /\ UNCHANGED <<SchedulerPrivate, taskPc, waitingOn, localHead,
                 currentContext, taskResumeContext, suspension, lastResume,
                 runningOn, enqueuedOn>>
  /\ UNCHANGED <<coreVars, packVars, childVars>>

\* completeFuture, step 3: the next waiter of the detached list is taken
\* off it and enqueued on the executor.
CompleteFutureWalk(f) ==
  /\ walkCursor[f] # nullptr
  /\ AddrTask(walkCursor[f]) \in SuspendTasks
  /\ \E next \in NextWaitingTask(SchedulerPrivate[AddrTask(walkCursor[f])]) :
       walkCursor' = [walkCursor EXCEPT ![f] = next]
  /\ Enqueue(AddrTask(walkCursor[f]), walkExecutor[f])
  /\ waitingOn' = [waitingOn EXCEPT ![AddrTask(walkCursor[f])] = 0]
  /\ UNCHANGED <<futureQueue, SchedulerPrivate, localHead, currentContext,
                 taskResumeContext, suspension, lastResume, runningOn,
                 walkExecutor>>
  /\ UNCHANGED <<coreVars, packVars, childVars>>

\* A yielding context calls yield_to_parent, or the task hops to another
\* executor: the task is handed to the executor it goes on with.
YieldOrHop(t, kind, executor) ==
  /\ taskPc[t] = "running"
  /\ kind = "hop" => executor \notin runningOn[t]
  /\ Commit(t, kind)
  /\ taskPc' = [taskPc EXCEPT ![t] = "enqueued"]
  /\ runningOn' = [runningOn EXCEPT ![t] = {}]
  /\ enqueuedOn' = [enqueuedOn EXCEPT ![t] = {executor}]
  /\ UNCHANGED <<futureQueue, SchedulerPrivate, waitingOn, localHead,
                 currentContext, walkCursor, walkExecutor>>
  /\ UNCHANGED <<coreVars, packVars, childVars>>

\* An executor runs a job that was enqueued on it:
\* job->runInFullyEstablishedContext(executor).
RunTask(executor, t) ==
  /\ executor \in enqueuedOn[t]
  /\ LET call == AsyncTask_runInFullyEstablishedContext(AsJob(t), executor)
     IN /\ lastResume' =
             [lastResume EXCEPT ![t] = [executor |-> call.args[2],
                                        context |-> call.args[3],
                                        after |-> suspension[t].kind]]
        /\ currentContext' = [currentContext EXCEPT ![t] = call.args[3]]
  /\ enqueuedOn' = [enqueuedOn EXCEPT ![t] = @ \ {executor}]
  /\ runningOn' = [runningOn EXCEPT ![t] = @ \cup {executor}]
  /\ taskPc' = [taskPc EXCEPT ![t] = "running"]
  /\ suspension' = [suspension EXCEPT ![t] = NoSuspension]
  /\ UNCHANGED <<futureQueue, SchedulerPrivate, waitingOn, localHead,
                 taskResumeContext, walkCursor, walkExecutor>>
  /\ UNCHANGED <<coreVars, packVars, childVars>>

SuspendNext ==
  \/ \E t \in SuspendTasks, context \in ContextIds : EnterContext(t, context)
  \/ \E t \in SuspendTasks, f \in SuspendFutures : WaitFuture(t, f)
  \/ \E t \in SuspendTasks : WaitFutureCAS(t)
  \/ \E t \in SuspendTasks : WaitFutureRetry(t)
  \/ \E f \in SuspendFutures, executor \in SuspendExecutors :
       CompleteFuture(f, CompletionOf(f), executor)
  \/ \E f \in SuspendFutures : CompleteFutureWalk(f)
  \/ \E t \in SuspendTasks, kind \in {"yield", "hop"},
        executor \in SuspendExecutors : YieldOrHop(t, kind, executor)
  \/ \E executor \in SuspendExecutors, t \in SuspendTasks :
       RunTask(executor, t)

SuspendSpec == Init /\ [][SuspendNext]_vars

(***************************************************************************)
(* Raw syntax nodes.                                                       *)
(*                                                                         *)
(* A node is a record of the fields of RawSyntax.  Lengths are byte        *)
(* counts; the model's texts are far shorter than 2^32 bytes, so the       *)
(* 32-bit TextLength field holds every length unchanged.  Node ids are     *)
(* unsigned numbers of IdBits bits.                                        *)
(***************************************************************************)
Present == 1
Missing == 0

\* llvm::None for an Optional<SyntaxNodeId>.
NoNodeId == 0 - 1

IdModulus == Pow2(IdBits)
NodeIds == 0..(IdModulus - 1)

Max(a, b) == IF a >= b THEN a ELSE b

\* The null RawSyntax pointer.
NullNode == 0

\* RawSyntax::isToken, getTextLength, getTotalSubNodeCount, getTotalNodes,
\* getId, isMissing, getNumChildren of a constructed node.
isToken(n) == n.IsToken
getTextLength(n) == n.TextLength
getTotalSubNodeCount(n) == IF isToken(n) THEN 0 ELSE n.TotalSubNodeCount
getTotalNodes(n) == getTotalSubNodeCount(n) + 1
getId(n) == n.NodeId
isMissing(n) == n.Presence = Missing
getNumChildren(n) == IF isToken(n) THEN 0 ELSE n.NumChildren

\* The node id a constructor assigns, and the counter it leaves behind.
AssignedNodeId(NodeId, nextFree) ==
  IF NodeId # NoNodeId THEN NodeId ELSE nextFree

NextFreeAfter(NodeId, nextFree) ==
  IF NodeId # NoNodeId
  THEN Max((NodeId + 1) % IdModulus, nextFree)
  ELSE (nextFree + 1) % IdModulus

\* The loop of the layout constructor over the children:
\* TotalSubNodeCount += Child->getTotalSubNodeCount() + 1 for each child
\* that is not null.
RECURSIVE SumSubNodes_skipself(_, _)
SumSubNodes_skipself(Layout, i) ==
  IF i = 0 THEN 0
  ELSE SumSubNodes_skipself(Layout, i - 1)
         + (IF Layout[i] # NullNode
            THEN getTotalSubNodeCount(nodes[Layout[i]]) ELSE 0)

RECURSIVE SumSubNodes(_, _)
SumSubNodes(Layout, i) ==
  IF i = 0 THEN 0
  ELSE SumSubNodes(Layout, i - 1)
         + (IF Layout[i] # NullNode
            THEN getTotalSubNodeCount(nodes[Layout[i]]) + 1 ELSE 0)

\* ... and Arena->addChildArena(Child->Arena) for each of them.
ChildArenasOf_none(Layout) == {}
ChildArenasOf(Layout) ==
  {nodes[Layout[i]].Arena : i \in {j \in 1..Len(Layout) : Layout[j] # NullNode}}

\* RawSyntax::RawSyntax for layout nodes.
RawSyntax_layout(Kind, Layout, TextLength, Presence, Arena, NodeId) ==
  [IsToken |-> FALSE, Kind |-> Kind, Presence |-> Presence,
   TextLength |-> TextLength, Arena |-> Arena,
   NodeId |-> AssignedNodeId(NodeId, NextFreeNodeId),
   NumChildren |-> Len(Layout),
   TotalSubNodeCount |-> SumSubNodes(Layout, Len(Layout)),
   Layout |-> Layout,
   LeadingTrivia |-> <<>>, TokenText |-> <<>>, TrailingTrivia |-> <<>>,
   LeadingTriviaLength |-> 0, TokenLength |-> 0, TrailingTriviaLength |-> 0]

\* RawSyntax::RawSyntax for token nodes, and its assertion.  A text is a
\* sequence of characters.
RawSyntax_token(TokKind, Text, TextLength, LeadingTrivia, TrailingTrivia, Presence, Arena, NodeId) ==
  [IsToken |-> TRUE, Kind |-> TokKind, Presence |-> Presence,
   TextLength |-> TextLength, Arena |-> Arena,
   NodeId |-> AssignedNodeId(NodeId, NextFreeNodeId),
   NumChildren |-> 0, TotalSubNodeCount |-> 0, Layout |-> <<>>,
   LeadingTrivia |-> LeadingTrivia, TokenText |-> Text,
   TrailingTrivia |-> TrailingTrivia,
   LeadingTriviaLength |-> Len(LeadingTrivia), TokenLength |-> Len(Text),
   TrailingTriviaLength |-> Len(TrailingTrivia)]

RawSyntax_token_assert(Text, TextLength, LeadingTrivia, TrailingTrivia, Presence) ==
  IF Presence = Missing THEN TextLength = 0
  ELSE TextLength = Len(LeadingTrivia) + Len(Text) + Len(TrailingTrivia)

\* The sum of getTextLength() over the children that are not null.
SumTextLength_first(Layout, i) ==
  IF i = 0 \/ Layout[1] = NullNode THEN 0
  ELSE getTextLength(nodes[Layout[1]])

RECURSIVE SumTextLength(_, _)
SumTextLength(Layout, i) ==
  IF i = 0 THEN 0
  ELSE SumTextLength(Layout, i - 1)
         + (IF Layout[i] # NullNode
            THEN getTextLength(nodes[Layout[i]]) ELSE 0)

\* RawSyntax::make for layout nodes and for token nodes.
make_layout(Kind, Layout, TextLength, Presence, Arena, NodeId) ==
  RawSyntax_layout(Kind, Layout, TextLength, Presence, Arena, NodeId)

make_token(TokKind, Text, TextLength, LeadingTrivia, TrailingTrivia, Presence, Arena, NodeId) ==
  RawSyntax_token(TokKind, Text, TextLength, LeadingTrivia, TrailingTrivia,
                  Presence, Arena, NodeId)

\* RawSyntax::makeAndCalcLength for layout nodes and for token nodes.
makeAndCalcLength_layout(Kind, Layout, Presence, Arena, NodeId) ==
  make_layout(Kind, Layout, SumTextLength(Layout, Len(Layout)), Presence,
              Arena, NodeId)

TokenTextLength(Text, LeadingTrivia, TrailingTrivia, Presence) ==
  IF Presence # Missing
  THEN Len(LeadingTrivia) + Len(Text) + Len(TrailingTrivia)
  ELSE 0

makeAndCalcLength_token(TokKind, Text, LeadingTrivia, TrailingTrivia, Presence, Arena, NodeId) ==
  make_token(TokKind, Text,
             TokenTextLength(Text, LeadingTrivia, TrailingTrivia, Presence),
             LeadingTrivia, TrailingTrivia, Presence, Arena, NodeId)

\* RawSyntax::missing for layout nodes and for token nodes.
missing_layout(Kind, Arena) ==
  make_layout(Kind, <<>>, 0, Missing, Arena, NoNodeId)

missing_token(TokKind, Text, Arena) ==
  make_token(TokKind, Text, 0, <<>>, <<>>, Missing, Arena, NoNodeId)

\* The syntax kinds and token kinds of the model, and the spelling
\* getTokenText gives each token kind (none for an identifier).
SyntaxKinds == {"CodeBlock"}
TokKinds == {"kw_if", "l_paren", "identifier", "r_paren"}
getTokenText(kind) ==
  CASE kind = "kw_if" -> <<"i", "f">>
    [] kind = "l_paren" -> <<"(">>
    [] kind = "r_paren" -> <<")">>
    [] OTHER -> <<>>

\* The source buffer the tree creator copied into its arena.
ArenaSourceBuffer == <<" ", "i", "f", " ", "(", "x", ")", " ">>

\* StringRef::substr: the start and the length are clamped to the text.
Min(a, b) == IF a <= b THEN a ELSE b
substr(text, Start, N) ==
  SubSeq(text, Min(Start, Len(text)) + 1,
         Min(Start, Len(text)) + Min(N, Len(text) - Min(Start, Len(text))))

\* SyntaxTreeCreator::recordToken: the token text is what the range leaves
\* after the two trivia pieces, and the three texts are consecutive slices
\* of the arena's copy of the source buffer.
\* tokLength is an unsigned: when the two trivia sizes exceed the byte
\* length of the range the difference wraps to a value far beyond the end
\* of the buffer.  The offsets computed from it are size_t sums and do not
\* wrap again.  The width of unsigned is the bound UnsignedBits; the slices
\* are the same for every width whose modulus exceeds the buffer length
\* plus the trivia sizes.
recordToken_tokLength(leadingSize, trailingSize, byteLength) ==
  (byteLength - leadingSize - trailingSize) % Pow2(UnsignedBits)

recordToken_tokStartOffset_notrivia(leadingTriviaStartOffset, leadingSize) ==
  leadingTriviaStartOffset

recordToken_tokStartOffset(leadingTriviaStartOffset, leadingSize) ==
  leadingTriviaStartOffset + leadingSize

recordToken_trailingTriviaStartOffset_overlap(tokStartOffset, tokLength) ==
  tokStartOffset

recordToken_trailingTriviaStartOffset(tokStartOffset, tokLength) ==
  tokStartOffset + tokLength

recordToken_leadingTriviaText(leadingSize, rangeStart) ==
  substr(ArenaSourceBuffer, rangeStart, leadingSize)

recordToken_tokenText(leadingSize, trailingSize, rangeStart, byteLength) ==
  substr(ArenaSourceBuffer,
         recordToken_tokStartOffset(rangeStart, leadingSize),
         recordToken_tokLength(leadingSize, trailingSize, byteLength))

recordToken_trailingTriviaText(leadingSize, trailingSize, rangeStart, byteLength) ==
  substr(ArenaSourceBuffer,
         recordToken_trailingTriviaStartOffset(
           recordToken_tokStartOffset(rangeStart, leadingSize),
           recordToken_tokLength(leadingSize, trailingSize, byteLength)),
         trailingSize)

recordToken(tokenKind, leadingSize, trailingSize, rangeStart, byteLength, Arena) ==
  make_token(tokenKind,
             recordToken_tokenText(leadingSize, trailingSize, rangeStart,
                                   byteLength),
             byteLength,
             recordToken_leadingTriviaText(leadingSize, rangeStart),
             recordToken_trailingTriviaText(leadingSize, trailingSize,
                                            rangeStart, byteLength),
             Present, Arena, NoNodeId)

\* SyntaxTreeCreator::recordMissingToken.
recordMissingToken(kind, Arena) ==
  missing_token(kind, getTokenText(kind), Arena)

\* SyntaxTreeCreator::recordRawSyntax.
recordRawSyntax(kind, elements, Arena) ==
  make_layout(kind, elements, SumTextLength(elements, Len(elements)),
              Present, Arena, NoNodeId)

\* SyntaxArena::addChildArena for each arena of a set: an arena does not
\* retain itself.
addChildArenas(Arena, children) ==
  [ChildArenas EXCEPT ![Arena] = @ \cup (children \ {Arena})]

\* The number of references held on an arena: its external holder and the
\* live arenas that retain it.
RefCount(a, ext, alive) ==
  (IF ext[a] THEN 1 ELSE 0)
    + Cardinality({b \in Arenas : alive[b] /\ a \in ChildArenas[b]})

\* Releasing references frees every arena whose count reaches zero, which
\* in turn releases the arenas it retained.
RECURSIVE FreeUnreferenced(_, _, _)
FreeUnreferenced(ext, alive, fuel) ==
  LET next == [a \in Arenas |-> alive[a] /\ RefCount(a, ext, alive) > 0]
  IN IF fuel = 0 \/ next = alive THEN next
     ELSE FreeUnreferenced(ext, next, fuel - 1)

\* The tokens the lexer finds in the source buffer: the token kind, the
\* sizes of the leading trivia and of the trailing trivia, the start of
\* the range and the size of the whole range.
Token(kind, leadingSize, trailingSize, rangeStart, byteLength) ==
  [kind |-> kind, leadingSize |-> leadingSize, trailingSize |-> trailingSize,
   rangeStart |-> rangeStart, byteLength |-> byteLength]

SourceTokens ==
  << Token("kw_if", 1, 1, 0, 4), Token("l_paren", 0, 0, 4, 1),
     Token("identifier", 0, 0, 5, 1), Token("r_paren", 0, 1, 6, 2) >>

\* The tokens recorded when trees are built from arbitrary pieces.
TokenRanges == {SourceTokens[1]}

\* The child lists a layout is built from: existing nodes and null
\* pointers.
MaxChildren == 2
Layouts ==
  UNION {[1..k -> 0..Len(nodes)] : k \in 0..MaxChildren}

Dereferenceable(Layout) ==
  \A i \in 1..Len(Layout) :
    Layout[i] # NullNode => arenaAlive[nodes[Layout[i]].Arena]

\* A tree creator of arena a can construct nodes.
CanBuild(a) == Len(nodes) < MaxNodes /\ external[a] /\ arenaAlive[a]

\* Construction of node n: the constructor's assertion holds, the node is
\* allocated, the id counter moves on and the arenas of the children are
\* retained.
Allocate(n, NodeId) ==
  /\ n.IsToken =>
       RawSyntax_token_assert(n.TokenText, n.TextLength, n.LeadingTrivia,
                              n.TrailingTrivia, n.Presence)
  /\ nodes' = Append(nodes, n)
  /\ NextFreeNodeId' = NextFreeAfter(NodeId, NextFreeNodeId)
  /\ ChildArenas' = addChildArenas(n.Arena, ChildArenasOf(n.Layout))
  /\ UNCHANGED <<external, arenaAlive, taskVars>>

\* A construction outside a parse.
Construct(n, NodeId) == Allocate(n, NodeId) /\ UNCHANGED parseVars

RecordToken(a, r) ==
  /\ CanBuild(a)
  /\ Construct(recordToken(r.kind, r.leadingSize, r.trailingSize,
                           r.rangeStart, r.byteLength, a), NoNodeId)

\* The ranges the lexer hands to recordToken: a range of the buffer that
\* starts with the leading trivia and ends with the trailing trivia.
MaxTriviaSize == 2
WellFormedRange(r) ==
  /\ r.rangeStart + r.byteLength <= Len(ArenaSourceBuffer)
  /\ r.leadingSize + r.trailingSize <= r.byteLength

LexerRanges ==
  {r \in {Token("identifier", l, t, s, n) :
            l \in 0..MaxTriviaSize, t \in 0..MaxTriviaSize,
            s \in 0..Len(ArenaSourceBuffer),
            n \in 0..Len(ArenaSourceBuffer)} :
     WellFormedRange(r)}

\* recordToken called as the first node of a tree; it checks none of its
\* arguments.
RecordTokenAt(r) ==
  /\ nodes = <<>>
  /\ RecordToken(ArenaA, r)

TokenNext == \E r \in LexerRanges : RecordTokenAt(r)

TokenSpec == Init /\ [][TokenNext]_vars

RecordMissingToken(a) ==
  /\ CanBuild(a)
  /\ Construct(recordMissingToken("kw_if", a), NoNodeId)

RecordRawSyntax(a, elements) ==
  /\ CanBuild(a)
  /\ Dereferenceable(elements)
  /\ Construct(recordRawSyntax("CodeBlock", elements, a), NoNodeId)

MakeAndCalcLengthLayout(a, Layout, Presence) ==
  /\ CanBuild(a)
  /\ Dereferenceable(Layout)
  /\ Construct(makeAndCalcLength_layout("CodeBlock", Layout, Presence, a,
                                        NoNodeId), NoNodeId)

MakeAndCalcLengthToken(a, r, Presence) ==
  /\ CanBuild(a)
  /\ Construct(makeAndCalcLength_token(
                 r.kind,
                 recordToken_tokenText(r.leadingSize, r.trailingSize,
                                       r.rangeStart, r.byteLength),
                 recordToken_leadingTriviaText(r.leadingSize, r.rangeStart),
                 recordToken_trailingTriviaText(r.leadingSize, r.trailingSize,
                                                r.rangeStart, r.byteLength),
                 Presence, a, NoNodeId),
               NoNodeId)

MissingLayout(a) ==
  /\ CanBuild(a)
  /\ Construct(missing_layout("CodeBlock", a), NoNodeId)

\* The external holder of arena a drops it.
DropArena(a) ==
  /\ external[a]
  /\ external' = [external EXCEPT ![a] = FALSE]
  /\ arenaAlive' = FreeUnreferenced(external', arenaAlive, Cardinality(Arenas))
  /\ UNCHANGED <<nodes, NextFreeNodeId, ChildArenas, nonSyntaxVars>>

\* Tree construction by the tree creator of arena A.
SyntaxNext ==
  \/ \E r \in TokenRanges : RecordToken(ArenaA, r)
  \/ RecordMissingToken(ArenaA)
  \/ \E elements \in Layouts : RecordRawSyntax(ArenaA, elements)
  \/ \E Layout \in Layouts, Presence \in {Present, Missing} :
       MakeAndCalcLengthLayout(ArenaA, Layout, Presence)
  \/ \E r \in TokenRanges, Presence \in {Present, Missing} :
       MakeAndCalcLengthToken(ArenaA, r, Presence)
  \/ MissingLayout(ArenaA)

SyntaxSpec == Init /\ [][SyntaxNext]_vars

\* Tree construction by the tree creators of both arenas, which may
\* reference each other's nodes, and the release of the arenas.
ArenaNext ==
  \/ \E a \in Arenas, r \in TokenRanges : RecordToken(a, r)
  \/ \E a \in Arenas, elements \in Layouts : RecordRawSyntax(a, elements)
  \/ \E a \in Arenas : DropArena(a)

ArenaSpec == Init /\ [][ArenaNext]_vars

\* Construction with an optional node id: the caller passes no id, or an
\* id that no node constructed so far has.
UsedNodeIds == {nodes[i].NodeId : i \in 1..Len(nodes)}
OptionalFreshIds == {NoNodeId} \cup (NodeIds \ UsedNodeIds)

CanBuildWithId == Len(nodes) < MaxIdNodes /\ arenaAlive[ArenaA]

MakeTokenWithId(NodeId) ==
  /\ CanBuildWithId
  /\ Construct(makeAndCalcLength_token("kw_if", <<"i", "f">>, <<" ">>,
                                       <<" ">>, Present, ArenaA, NodeId),
               NodeId)

MakeLayoutWithId(NodeId) ==
  /\ CanBuildWithId
  /\ Construct(makeAndCalcLength_layout("CodeBlock", <<>>, Present, ArenaA,
                                        NodeId), NodeId)

IdNext ==
  \/ \E NodeId \in OptionalFreshIds : MakeTokenWithId(NodeId)
  \/ \E NodeId \in OptionalFreshIds : MakeLayoutWithId(NodeId)

IdSpec == Init /\ [][IdNext]_vars

(***************************************************************************)
(* Incremental reuse: the tree creator may be given a SyntaxParsingCache   *)
(* seeded from an earlier tree, and lookupNode asks it for a node of a     *)
(* kind at a lexer offset.                                                 *)
(***************************************************************************)
\* RawSyntax::getKind.
getKind(n) == IF n.IsToken THEN "Token" ELSE n.Kind

LookupKinds == {"CodeBlock", "Token"}

\* SyntaxParsingCache::lookUp: the node cached at the offset, if it has the
\* kind asked for.
lookUp(cache, lexerOffset, kind) ==
  IF /\ lexerOffset \in DOMAIN cache.node
     /\ cache.node[lexerOffset] # NullNode
     /\ getKind(nodes[cache.node[lexerOffset]]) = kind
  THEN cache.node[lexerOffset]
  ELSE NullNode

\* SyntaxTreeCreator::lookupNode: the pair of the length and the node.
lookupNode_nolength(lexerOffset, kind) ==
  IF ~SyntaxCache.supplied THEN <<0, NullNode>>
  ELSE LET cacheLookup == lookUp(SyntaxCache, lexerOffset, kind)
       IN IF cacheLookup = NullNode THEN <<0, NullNode>>
          ELSE <<0, cacheLookup>>

lookupNode(lexerOffset, kind) ==
  IF ~SyntaxCache.supplied THEN <<0, NullNode>>
  ELSE LET cacheLookup == lookUp(SyntaxCache, lexerOffset, kind)
       IN IF cacheLookup = NullNode THEN <<0, NullNode>>
          ELSE <<getTextLength(nodes[cacheLookup]), cacheLookup>>

\* The tree creator is given a cache that holds node i of the earlier tree
\* at the offset, or an empty cache.
SupplyCache(offset, i) ==
  /\ ~SyntaxCache.supplied
  /\ SyntaxCache' = [supplied |-> TRUE,
                     node |-> [o \in LookupOffsets |->
                                 IF o = offset THEN i ELSE NullNode]]
  /\ UNCHANGED <<lookupResult, lexerPos, pendingNodes, transformResult,
                 syntaxVars, taskVars>>

LookupNode(lexerOffset, kind) ==
  /\ lookupResult' = [offset |-> lexerOffset, kind |-> kind,
                      length |-> lookupNode(lexerOffset, kind)[1],
                      node |-> lookupNode(lexerOffset, kind)[2]]
  /\ UNCHANGED <<SyntaxCache, lexerPos, pendingNodes, transformResult,
                 syntaxVars, taskVars>>

LookupNext ==
  \/ \E r \in TokenRanges : RecordToken(ArenaA, r)
  \/ \E elements \in Layouts : RecordRawSyntax(ArenaA, elements)
  \/ \E offset \in LookupOffsets, i \in 0..Len(nodes) : SupplyCache(offset, i)
  \/ \E lexerOffset \in LookupOffsets, kind \in LookupKinds :
       LookupNode(lexerOffset, kind)

LookupSpec == Init /\ [][LookupNext]_vars

(***************************************************************************)
(* Transforms: each returns a new node and leaves the node it is called on *)
(* as it was.                                                              *)
(***************************************************************************)
\* RawSyntax::getTokenKind, getTokenText, getLeadingTrivia,
\* getTrailingTrivia, getPresence, getLayout.
getTokenKind(n) == n.Kind
getTokenText_of(n) == n.TokenText
getLeadingTrivia(n) == n.LeadingTrivia
getTrailingTrivia(n) == n.TrailingTrivia
getPresence(n) == n.Presence
getLayout(n) == IF n.IsToken THEN <<>> ELSE n.Layout

\* RawSyntax::withLeadingTrivia and withTrailingTrivia.
withLeadingTrivia_arenaA(n, NewLeadingTrivia) ==
  makeAndCalcLength_token(getTokenKind(n), getTokenText_of(n),
                          NewLeadingTrivia, getTrailingTrivia(n),
                          getPresence(n), ArenaA, NoNodeId)

withLeadingTrivia(n, NewLeadingTrivia) ==
  makeAndCalcLength_token(getTokenKind(n), getTokenText_of(n),
                          NewLeadingTrivia, getTrailingTrivia(n),
                          getPresence(n), n.Arena, NoNodeId)

withTrailingTrivia(n, NewTrailingTrivia) ==
  makeAndCalcLength_token(getTokenKind(n), getTokenText_of(n),
                          getLeadingTrivia(n), NewTrailingTrivia,
                          getPresence(n), n.Arena, NoNodeId)

\* RawSyntax::append and replacingChild: the new node has the layout of
\* the old one with the element added at the end, or put at the index.
append(n, NewLayoutElement) ==
  makeAndCalcLength_layout(getKind(n), Append(getLayout(n), NewLayoutElement),
                           Present, n.Arena, NoNodeId)

replacingChild(n, Index, NewLayoutElement) ==
  makeAndCalcLength_layout(getKind(n),
                           [getLayout(n) EXCEPT ![Index + 1] = NewLayoutElement],
                           getPresence(n), n.Arena, NoNodeId)

\* The trivia texts passed to the transforms.
NewTriviaTexts == {<<>>, <<" ", " ">>}

\* A transform called on node i: the node is dereferenceable, and the call
\* returns the node it constructs.
CanTransform(i) == Len(nodes) < MaxNodes /\ arenaAlive[nodes[i].Arena]

Transform(op, i, arg, n) ==
  /\ Allocate(n, NoNodeId)
  /\ transformResult' = [op |-> op, on |-> i, arg |-> arg,
                         node |-> Len(nodes) + 1]
  /\ UNCHANGED <<SyntaxCache, lookupResult, lexerPos, pendingNodes>>

WithLeadingTrivia(i, NewLeadingTrivia) ==
  /\ CanTransform(i) /\ nodes[i].IsToken
  /\ Transform("withLeadingTrivia", i, NewLeadingTrivia,
               withLeadingTrivia(nodes[i], NewLeadingTrivia))

WithTrailingTrivia(i, NewTrailingTrivia) ==
  /\ CanTransform(i) /\ nodes[i].IsToken
  /\ Transform("withTrailingTrivia", i, NewTrailingTrivia,
               withTrailingTrivia(nodes[i], NewTrailingTrivia))

AppendChild(i, NewLayoutElement) ==
  /\ CanTransform(i) /\ ~nodes[i].IsToken
  /\ Dereferenceable(<<NewLayoutElement>>)
  /\ Transform("append", i, <<NewLayoutElement>>, append(nodes[i], NewLayoutElement))

ReplacingChild(i, Index, NewLayoutElement) ==
  /\ CanTransform(i) /\ ~nodes[i].IsToken
  /\ Index < getNumChildren(nodes[i])
  /\ Dereferenceable(<<NewLayoutElement>>)
  /\ Transform("replacingChild", i, <<NewLayoutElement>>,
               replacingChild(nodes[i], Index, NewLayoutElement))

\* The short child lists layouts start from before they are transformed.
ShortLayouts == UNION {[1..k -> 0..Len(nodes)] : k \in 0..1}

TransformNext ==
  \/ \E a \in Arenas, r \in TokenRanges : RecordToken(a, r)
  \/ RecordMissingToken(ArenaA)
  \/ \E a \in Arenas, elements \in ShortLayouts : RecordRawSyntax(a, elements)
  \/ \E Layout \in ShortLayouts, Presence \in {Present, Missing} :
       MakeAndCalcLengthLayout(ArenaA, Layout, Presence)
  \/ \E r \in TokenRanges, Presence \in {Present, Missing} :
       MakeAndCalcLengthToken(ArenaA, r, Presence)
  \/ MissingLayout(ArenaA)
  \/ \E i \in 1..Len(nodes), text \in NewTriviaTexts :
       WithLeadingTrivia(i, text)
  \/ \E i \in 1..Len(nodes), text \in NewTriviaTexts :
       WithTrailingTrivia(i, text)
  \/ \E i \in 1..Len(nodes), c \in 0..Len(nodes) : AppendChild(i, c)
  \/ \E i \in 1..Len(nodes), Index \in 0..(MaxChildren - 1),
        c \in 0..Len(nodes) : ReplacingChild(i, Index, c)

TransformSpec == Init /\ [][TransformNext]_vars

\* Trivia transforms of tokens in a process whose nodes are constructed
\* with and without caller-supplied ids.
IdTransformNext ==
  \/ \E NodeId \in OptionalFreshIds : MakeTokenWithId(NodeId)
  \/ \E NodeId \in OptionalFreshIds : MakeLayoutWithId(NodeId)
  \/ \E i \in 1..Len(nodes), text \in NewTriviaTexts :
       WithLeadingTrivia(i, text)
  \/ \E i \in 1..Len(nodes), text \in NewTriviaTexts :
       WithTrailingTrivia(i, text)

IdTransformSpec == Init /\ [][IdTransformNext]_vars

(***************************************************************************)
(* A parse of the source buffer: the parser records the tokens in source   *)
(* order, records missing tokens where it expected one, and records a      *)
(* layout over the nodes it recorded last; then the tree is printed.       *)
(***************************************************************************)
\* RawSyntax::print with the default SyntaxPrintOptions: the text written
\* to the stream for node i.
RECURSIVE printChildren(_, _)
RECURSIVE print(_)
print(i) ==
  IF isMissing(nodes[i]) THEN <<>>
  ELSE IF isToken(nodes[i])
       THEN getLeadingTrivia(nodes[i]) \o getTokenText_of(nodes[i])
              \o getTrailingTrivia(nodes[i])
       ELSE printChildren(getLayout(nodes[i]), Len(getLayout(nodes[i])))

printChildren(Layout, k) ==
  IF k = 0 THEN <<>>
  ELSE printChildren(Layout, k - 1)
         \o (IF Layout[k] # NullNode THEN print(Layout[k]) ELSE <<>>)

CanParse == Len(nodes) < MaxParseNodes /\ external[ArenaA] /\ arenaAlive[ArenaA]

\* The parser consumes the next token of the buffer.
ParseToken ==
  /\ CanParse
  /\ lexerPos < Len(SourceTokens)
  /\ LET r == SourceTokens[lexerPos + 1]
     IN Allocate(recordToken(r.kind, r.leadingSize, r.trailingSize,
                             r.rangeStart, r.byteLength, ArenaA), NoNodeId)
  /\ lexerPos' = lexerPos + 1
  /\ pendingNodes' = Append(pendingNodes, Len(nodes) + 1)
  /\ UNCHANGED <<SyntaxCache, lookupResult, transformResult>>

\* The parser expected a token of the kind and did not find it.
ParseMissingToken(kind) ==
  /\ CanParse
  /\ Allocate(recordMissingToken(kind, ArenaA), NoNodeId)
  /\ pendingNodes' = Append(pendingNodes, Len(nodes) + 1)
  /\ UNCHANGED <<SyntaxCache, lookupResult, lexerPos, transformResult>>

\* The parser finishes a production over the k nodes it recorded last,
\* with a null pointer first for an optional child that is absent.
ParseLayout(k, absentFirst) ==
  /\ CanParse
  /\ k <= Len(pendingNodes)
  /\ absentFirst => k > 0
  /\ LET parts == SubSeq(pendingNodes, Len(pendingNodes) - k + 1,
                         Len(pendingNodes))
         elements == IF absentFirst THEN <<NullNode>> \o parts ELSE parts
     IN Allocate(recordRawSyntax("CodeBlock", elements, ArenaA), NoNodeId)
  /\ pendingNodes' =
       Append(SubSeq(pendingNodes, 1, Len(pendingNodes) - k), Len(nodes) + 1)
  /\ UNCHANGED <<SyntaxCache, lookupResult, lexerPos, transformResult>>

ParseNext ==
  \/ ParseToken
  \/ \E kind \in {"r_paren"} : ParseMissingToken(kind)
  \/ \E k \in 0..MaxParseNodes, absentFirst \in BOOLEAN :
       ParseLayout(k, absentFirst)

ParseSpec == Init /\ [][ParseNext]_vars

(***************************************************************************)
(* Derived views of the future used by the properties.                     *)
(***************************************************************************)
RECURSIVE ReverseSeq(_)
ReverseSeq(q) ==
  IF q = <<>> THEN <<>> ELSE Append(ReverseSeq(Tail(q)), Head(q))

IsPrefix(p, q) == Len(p) <= Len(q) /\ SubSeq(q, 1, Len(p)) = p

InSeq(x, q) == \E i \in 1..Len(q) : q[i] = x

\* The tasks of the enqueue log, in the order the executors received them.
LogTasks == [i \in 1..Len(enqLog) |-> enqLog[i].task]

\* The waiter list starting at address a, following the next-waiter links;
\* the list is followed no further than a link that was never written.
RECURSIVE ChainN(_, _)
ChainN(a, n) ==
  IF a = nullptr \/ n = 0 \/ AddrTask(a) \notin Waiters THEN <<>>
  ELSE LET links == getNextWaitingTask(AddrTask(a))
       IN <<AddrTask(a)>>
            \o (IF Cardinality(links) # 1 THEN <<>>
                ELSE ChainN(CHOOSE next \in links : TRUE, n - 1))

Chain(a) == ChainN(a, MaxWaiters + 1)

FutureStatus == getStatus(waitQueue)
Completed == FutureStatus # Executing
Terminal(st) == st \in {Success, Error}

(***************************************************************************)
(* C1  Future monotonicity: the status starts as Executing, at most one    *)
(* completion ever takes effect, and once the status is Success or Error   *)
(* no step changes it again.                                               *)
(***************************************************************************)
C1_FutureMonotonic ==
  /\ FutureStatus = Executing
  /\ [](Len(completedBy) <= 1 /\ (Completed <=> Len(completedBy) = 1))
  /\ [][Completed => FutureStatus' = FutureStatus]_vars

\* A completed future on which a second completion attempt has ended and a
\* waiter arrived after completion.
C1_Witness ==
  /\ Completed
  /\ \E c \in Completers : cpc[c] = "aborted"
  /\ \E t \in Waiters : Terminal(ret[t])
  /\ \E t \in Waiters : ret[t] = Executing

(***************************************************************************)
(* C2  No lost and no duplicated wake-up: every enqueue is of a task whose *)
(* waitFuture returned Executing, happens after the status left Executing, *)
(* goes to the executor passed to the completing call, and no task is      *)
(* enqueued twice; once completeFuture has finished, every task whose      *)
(* waitFuture returned Executing has been enqueued.                        *)
(***************************************************************************)
C2_NoLostNoDuplicateWakeup ==
  /\ \A i \in 1..Len(enqLog) :
       /\ ret[enqLog[i].task] = Executing
       /\ Completed
       /\ enqLog[i].by = completedBy[1]
       /\ enqLog[i].exec = ExecutorArg(completedBy[1])
       /\ \A j \in 1..Len(enqLog) : enqLog[j].task = enqLog[i].task => j = i
  /\ (\E c \in Completers : cpc[c] = "done") =>
       \A t \in Waiters : ret[t] = Executing => InSeq(t, LogTasks)

\* completeFuture has finished after enqueueing two waiters, one of them
\* registered on top of the other.
C2_Witness ==
  /\ \E c \in Completers : cpc[c] = "done"
  /\ Len(enqLog) = 2
  /\ \E t \in Waiters : ret[t] = Executing /\ headAtReg[t] # nullptr

(***************************************************************************)
(* C3  Waiters are notified in LIFO order of registration: the executors   *)
(* receive the waiters in the exact reverse of the order in which their    *)
(* registration CAS succeeded.                                             *)
(***************************************************************************)
C3_NotifiedInLIFOOrder ==
  /\ IsPrefix(LogTasks, ReverseSeq(regOrder))
  /\ (\E c \in Completers : cpc[c] = "done") =>
       LogTasks = ReverseSeq(regOrder)

\* Task 1 registered before task 2 and the executor has received both.
C3_Witness ==
  /\ regOrder = <<1, 2>>
  /\ LogTasks = <<2, 1>>

(***************************************************************************)
(* C4  (as claimed) waitFuture returns Executing iff the task was added at *)
(* the head of the queue with its link set to the previous head; when it   *)
(* returns Success or Error, the task's next-waiter link is unchanged and  *)
(* the returned status is the future's terminal status.                    *)
(* The link is unchanged when the call has stored nothing in it.           *)
(***************************************************************************)
C4_Original ==
  \A t \in Waiters :
    /\ ret[t] = Executing <=> InSeq(t, regOrder)
    /\ InSeq(t, regOrder) => getNextWaitingTask(t) = {headAtReg[t]}
    /\ (~Completed) => Chain(getTask(waitQueue)) = ReverseSeq(regOrder)
    /\ Terminal(ret[t]) =>
         /\ ret[t] = FutureStatus
         /\ nextWaiting[t] = NeverWritten

(***************************************************************************)
(* C4  (amended) waitFuture returns Executing iff the task was added at    *)
(* the head of the queue with its link set to the previous head; when it   *)
(* returns Success or Error the task is not in the queue, is never         *)
(* enqueued, and the returned status is the future's terminal status (its  *)
(* link may keep the head written before a failed CAS).                    *)
(***************************************************************************)
C4_WaitFutureReturn ==
  \A t \in Waiters :
    /\ ret[t] = Executing <=> InSeq(t, regOrder)
    /\ InSeq(t, regOrder) => getNextWaitingTask(t) = {headAtReg[t]}
    /\ (~Completed) => Chain(getTask(waitQueue)) = ReverseSeq(regOrder)
    /\ Terminal(ret[t]) =>
         /\ ret[t] = FutureStatus
         /\ ~InSeq(t, regOrder)
         /\ ~InSeq(t, LogTasks)

\* One call returned Executing with its task registered, and another call
\* returned a terminal status after its registration CAS had failed.
C4_Witness ==
  /\ \E t \in Waiters : ret[t] = Executing /\ InSeq(t, regOrder)
  /\ \E t \in Waiters :
       /\ Terminal(ret[t])
       /\ nextWaiting[t] # NeverWritten /\ getNextWaitingTask(t) # {nullptr}

(***************************************************************************)
(* C5  A second completion attempt changes neither the status, nor the     *)
(* stored result, nor the stored error, and enqueues no task: after the    *)
(* first transition the result storage and the error slot are stable.      *)
(***************************************************************************)
C5_SecondCompletionNoEffect ==
  Completed =>
    /\ Len(completedBy) = 1
    /\ FutureStatus = cargs[completedBy[1]].kind
    /\ \A i \in 1..Len(enqLog) : enqLog[i].by = completedBy[1]
    /\ result = firstResult
    /\ error = firstError

(***************************************************************************)
(* C6  Completion happens-before resumption: whenever a waiter has been    *)
(* enqueued by completeFuture or waitFuture has returned Success/Error,    *)
(* the result storage (for Success) or the error slot (for Error) holds    *)
(* the value the future was completed with, and every waiter reads it.     *)
(***************************************************************************)
CompletionValue == cargs[completedBy[1]].val

C6_CompletionBeforeResumption ==
  \A t \in Waiters :
    (InSeq(t, LogTasks) \/ Terminal(ret[t])) =>
      /\ Completed
      /\ FutureStatus = Success => result = CompletionValue
      /\ FutureStatus = Error => error = CompletionValue
      /\ wpc[t] \in {"returned", "resumed"} => readVal[t] = CompletionValue

(***************************************************************************)
(* C7  Liveness of waiters: under the fairness of LiveSpec, every task     *)
(* whose waitFuture returned Executing is eventually run once the future   *)
(* has been completed.                                                     *)
(***************************************************************************)
C7_WaitersEventuallyRun ==
  Completed ~> (\A t \in Waiters : ret[t] = Executing => wpc[t] = "resumed")

\* Both waiters were parked on the future and both have been run.
C7_Witness ==
  \A t \in 1..2 : ret[t] = Executing /\ wpc[t] = "resumed"

(***************************************************************************)
(* Properties of the status word and of cancellation (StatusSpec).         *)
(***************************************************************************)
Cancelled(t) == AsyncTask_isCancelled(t)

CancelInProgress(t) ==
  \E k \in Cancellers : \E i \in 1..Len(cstack[k]) : cstack[k][i].task = t

NoCancelInProgress == \A k \in Cancellers : cstack[k] = <<>>

\* The tasks reached from t through the records that each cancelled task
\* had when it was cancelled.
RECURSIVE SnapClosureN(_, _)
SnapClosureN(S, n) ==
  IF n = 0 THEN S
  ELSE SnapClosureN(S \cup UNION {snap[c] : c \in S}, n - 1)

SnapClosure(t) == SnapClosureN(snap[t], Grandchild)

(***************************************************************************)
(* C8  Cancellation stickiness: once the cancelled bit of a task's status  *)
(* word is set, it is set in every later state, whichever cancel, lock     *)
(* acquire, lock release, record push or record pop comes next.            *)
(***************************************************************************)
C8_CancellationSticky ==
  [][\A t \in STasks : isCancelled(status[t]) => isCancelled(status'[t])]_vars

\* The root was cancelled with an empty chain, has pushed its group record
\* since, a second cancel found it cancelled, and its lock is now held by
\* the inspecting thread.
C8_Witness ==
  /\ Cancelled(Root)
  /\ effCancels[Root] = 1
  /\ snap[Root] = {}
  /\ InChain(GroupRec, Root)
  /\ noopCancels >= 1
  /\ ipc = Root
  /\ isLocked(status[Root])

(***************************************************************************)
(* C9  Cancellation idempotence: a cancel of an already cancelled task     *)
(* changes no status word, no record chain and no child; hence the         *)
(* cancelled bit of a task is set by at most one cancel, and a             *)
(* cancellation handler runs at most once.                                 *)
(***************************************************************************)
C9_CancelIdempotent ==
  /\ [](/\ \A t \in STasks : effCancels[t] <= 1
        /\ \A r \in Records : handlerRuns[r] <= 1)
  /\ [][noopCancels' # noopCancels =>
          UNCHANGED <<status, recParent, handlerRuns, effCancels, snap, ipc>>
       ]_vars

\* Two cancel calls on the root have returned; the first ran the root's
\* handler, the second found the root cancelled.
C9_Witness ==
  /\ \A k \in 1..2 : kpc[k] = "done"
  /\ effCancels[Root] = 1
  /\ \A t \in STasks \ {Root} : effCancels[t] = 0
  /\ handlerRuns[HandlerRec] = 1
  /\ noopCancels = 1

(***************************************************************************)
(* C10  Structural cancellation: once the cancelled bit of a task is set,  *)
(* eventually every child task that was reachable through the task's       *)
(* status records is cancelled, and so, transitively, is every child of    *)
(* its task groups and of those children.  When the cancel that set the    *)
(* bit has returned, the children observe the bit at their next check.     *)
(***************************************************************************)
C10_CancelReturned ==
  /\ \A t \in STasks :
       (effCancels[t] > 0 /\ ~CancelInProgress(t)) =>
          /\ Cancelled(t)
          /\ \A c \in snap[t] : Cancelled(c)
  /\ NoCancelInProgress =>
       \A t \in STasks : \A c \in SnapClosure(t) : Cancelled(c)

\* Every cancelled task has all the children reached from it cancelled.
C10_Propagated ==
  \A t \in STasks :
    Cancelled(t) => (\A c \in SnapClosure(t) : Cancelled(c))

RECURSIVE ChainPointersN(_, _)
ChainPointersN(a, n) ==
  IF a = nullptr \/ n = 0 THEN <<>>
  ELSE <<a>> \o (IF AddrRec(a) \in Records
                 THEN ChainPointersN(recParent[AddrRec(a)], n - 1)
                 ELSE <<>>)

ChainPointers(a) == ChainPointersN(a, Cardinality(Records) + 1)

RecAddrs(q) == [i \in 1..Len(q) |-> RecAddr(q[i])]

NoDuplicates(q) == \A i, j \in 1..Len(q) : q[i] = q[j] => i = j

(***************************************************************************)
(* C11  Status-record LIFO: the chain read from the status word of a task  *)
(* is its pushed, not yet popped records, innermost first, each once; a    *)
(* locked walk by another thread has seen, and has still to see, exactly   *)
(* these records in that order.                                            *)
(***************************************************************************)
C11_ChainIsPushStack ==
  /\ \A t \in STasks :
       /\ NoDuplicates(pushStack[t])
       /\ ChainPointers(getInnermostRecord(status[t]))
            = RecAddrs(ReverseSeq(pushStack[t]))
  /\ \A k \in Cancellers : \A i \in 1..Len(cstack[k]) :
       RecAddrs(cstack[k][i].seen) \o ChainPointers(cstack[k][i].rec)
         = RecAddrs(ReverseSeq(pushStack[cstack[k][i].task]))

\* The root pushed its handler record, then its group record, and popped
\* the group record again, which still points at the handler record; a
\* cancelling thread has walked the chain and seen the handler record only.
C11_Witness ==
  /\ pushStack[Root] = <<HandlerRec>>
  /\ recParent[GroupRec] = RecAddr(HandlerRec)
  /\ \E k \in Cancellers :
       /\ cstack[k] # <<>>
       /\ Top(k).task = Root
       /\ Top(k).seen = <<HandlerRec>>

\* The threads other than the task that are inside a locked section on the
\* status of task t: cancelling threads with an open walk, the inspecting
\* thread (numbered 0) and the mutating thread (numbered -1).
LockHolders(t) ==
  {k \in Cancellers : \E i \in 1..Len(cstack[k]) : cstack[k][i].task = t}
    \cup (IF ipc = t THEN {0} ELSE {})
    \cup (IF mutation.task = t THEN {0 - 1} ELSE {})

(***************************************************************************)
(* C12  Lock discipline: at most one thread is inside a locked section on  *)
(* a task's status, and exactly then the IsLocked bit is set; a thread     *)
(* enters a locked section only by a step from an unlocked to a locked     *)
(* status word; and while the bit is set the record chain does not change. *)
(***************************************************************************)
C12_LockDiscipline ==
  /\ [](\A t \in STasks :
          /\ Cardinality(LockHolders(t)) <= 1
          /\ isLocked(status[t]) <=> LockHolders(t) # {})
  /\ [][\A t \in STasks :
          /\ (LockHolders(t)' \ LockHolders(t) # {}) =>
               (~isLocked(status[t]) /\ isLocked(status'[t]))
          /\ isLocked(status[t]) =>
               /\ pushStack'[t] = pushStack[t]
               /\ getInnermostRecord(status'[t]) = getInnermostRecord(status[t])
               /\ \A r \in RecordsOf(t) : recParent'[r] = recParent[r]
       ]_vars

\* The inspecting thread holds the lock of the first group child while a
\* cancelling thread, holding the root's lock, is about to cancel that
\* child and has to wait for the lock.
C12_Witness ==
  /\ ipc = 2
  /\ ~Cancelled(2)
  /\ \E k \in Cancellers :
       /\ Len(cstack[k]) = 1
       /\ Top(k).task = Root
       /\ Top(k).child = TaskAddr(2)
  /\ LockHolders(2) = {0}

Count(x, q) == Cardinality({i \in 1..Len(q) : q[i] = x})

(***************************************************************************)
(* C13  Task-group delivery: a group child that has completed its future   *)
(* and gone on is offered to its group exactly once, and no other task is  *)
(* offered; an offered completion is pending, handed to the parent, or     *)
(* returned by next(), exactly once in all; next() returns the oldest      *)
(* pending completion at once, and parks the parent only when none is      *)
(* pending; an offer to a parked parent resumes it with that completion,   *)
(* and a parked parent eventually returns from next().                     *)
(***************************************************************************)
C13_GroupDelivery ==
  /\ [](\A c \in GTasks :
          /\ Count(c, offerLog)
               = IF gpc[c] = "done" /\ JobFlagsOf(c).isGroupChildTask
                 THEN 1 ELSE 0
          /\ Count(c, pending) + Count(c, returned)
               + (IF delivered = c THEN 1 ELSE 0) = Count(c, offerLog))
  /\ [](nextState = "parked" => pending = <<>> /\ delivered = 0)
  /\ [][/\ (nextState = "idle" /\ pending # <<>>
                /\ <<nextState, returned>>' # <<nextState, returned>>)
             => /\ returned' = Append(returned, Head(pending))
                /\ pending' = Tail(pending)
                /\ nextState' = "idle"
        /\ (nextState = "parked" /\ offerLog' # offerLog)
             => /\ nextState' = "resumable"
                /\ delivered' = offerLog'[Len(offerLog')]
        /\ (nextState = "resumable" /\ nextState' # nextState)
             => /\ nextState' = "idle"
                /\ returned' = Append(returned, delivered)
       ]_vars
  /\ (nextState = "parked") ~> (nextState = "idle")

\* One completion has been returned, the parent parked again and the
\* second group child's offer has resumed it; the plain child task has
\* completed without an offer.
C13_Witness ==
  /\ nextState = "resumable"
  /\ Len(returned) = 1
  /\ delivered \in GroupChildren
  /\ gpc[Grandchild] = "done"
  /\ Count(Grandchild, offerLog) = 0

\* The value of the most recently pushed binding of keyType in a log of
\* pushes (oldest first), or Nothing.
RECURSIVE LatestIn(_, _)
LatestIn(log, keyType) ==
  IF log = <<>> THEN Nothing
  ELSE IF log[Len(log)].key = keyType THEN log[Len(log)].value
  ELSE LatestIn(SubSeq(log, 1, Len(log) - 1), keyType)

ExpectedGet(t, keyType, inherit) ==
  IF LatestIn(pushLog[t], keyType) # Nothing
  THEN LatestIn(pushLog[t], keyType)
  ELSE IF t = LocalChild /\ inherit = "Default"
       THEN LatestIn(pushLogAtCreate, keyType)
       ELSE Nothing

(***************************************************************************)
(* C14  Task-local values form a LIFO stack: the stack of a task is its    *)
(* pushed, not yet popped bindings, innermost first; localValueGet         *)
(* returns the value of the most recently pushed live binding of the key,  *)
(* then, for the child under the Default policy only, that of the          *)
(* bindings inherited at creation, and Nothing otherwise; a pop removes    *)
(* exactly the topmost binding, and a push leaves the previous stack       *)
(* beneath the new binding.                                                *)
(***************************************************************************)
C14_TaskLocalLIFO ==
  /\ [](/\ \A t \in LTasks : Local[t] = ReverseSeq(pushLog[t])
        /\ inherited = ReverseSeq(pushLogAtCreate)
        /\ lastGet # NoGet =>
             lastGet.value
               = ExpectedGet(lastGet.task, lastGet.key, lastGet.inherit))
  /\ [][\A t \in LTasks :
          /\ Len(Local'[t]) < Len(Local[t]) =>
               (Local[t] = <<Head(Local[t])>> \o Local'[t])
          /\ Len(Local'[t]) > Len(Local[t]) =>
               (Tail(Local'[t]) = Local[t])
       ]_vars

\* The child shadows K1, which it also inherited, has no binding of K2,
\* and its last get of K2 returned the parent's inherited value, although
\* the parent has popped that binding since.
C14_Witness ==
  /\ childCreated
  /\ findValue(Local[LocalChild], "K1") # Nothing
  /\ findValue(inherited, "K1") # Nothing
  /\ findValue(Local[Root], "K2") = Nothing
  /\ lastGet.task = LocalChild
  /\ lastGet.key = "K2"
  /\ lastGet.inherit = "Default"
  /\ lastGet.value = LocalValue(Root, 2)

\* The canonical order of the trailing fragments and their sizes.
CanonicalOrder == <<"child", "groupChild", "future">>

FragmentBytes(f, resultType) ==
  IF f = "child" THEN SizeofChildFragment
  ELSE IF f = "groupChild" THEN SizeofGroupChildFragment
  ELSE fragmentSize(resultType)

FlagOf(flags, f) ==
  IF f = "child" THEN flags.isChildTask
  ELSE IF f = "groupChild" THEN flags.isGroupChildTask
  ELSE flags.isFuture

RECURSIVE SumPresent(_, _, _)
SumPresent(flags, i, resultType) ==
  IF i = 0 THEN 0
  ELSE SumPresent(flags, i - 1, resultType)
         + (IF FlagOf(flags, CanonicalOrder[i])
            THEN FragmentBytes(CanonicalOrder[i], resultType) ELSE 0)

IndexOf(f) == CHOOSE i \in 1..Len(CanonicalOrder) : CanonicalOrder[i] = f

CanonicalOffset(flags, f, resultType) ==
  SizeofAsyncTask + SumPresent(flags, IndexOf(f) - 1, resultType)

(***************************************************************************)
(* C15  Fragment offsets are canonical: for a task of any flag             *)
(* combination, each present fragment is at sizeof(AsyncTask) plus the     *)
(* sizes of the present fragments before it in the order child, group      *)
(* child, future; present fragments do not overlap, the future fragment    *)
(* starts after all others, and an accessor returns that offset.           *)
(***************************************************************************)
C15_FragmentOffsets ==
  job.class = "AsyncTask" =>
    /\ \A f \in Fragments :
         FlagOf(job.Flags, f) =>
           /\ FragmentPresent(job.Flags, f)
           /\ FragmentOffset(job.Flags, f)
                = CanonicalOffset(job.Flags, f, job.resultType)
    /\ FlagOf(job.Flags, "child") =>
         FragmentOffset(job.Flags, "child") = SizeofAsyncTask
    /\ \A f, g \in Fragments :
         (FlagOf(job.Flags, f) /\ FlagOf(job.Flags, g)
            /\ IndexOf(f) < IndexOf(g)) =>
           FragmentOffset(job.Flags, f) + FragmentBytes(f, job.resultType)
             <= FragmentOffset(job.Flags, g)
    /\ lastFragment # NoFragment =>
         /\ FlagOf(job.Flags, lastFragment.fragment)
         /\ lastFragment.offset
              = CanonicalOffset(job.Flags, lastFragment.fragment,
                                job.resultType)

\* A task with all three fragments whose future fragment was asked for:
\* it lies behind the child and the group-child fragment.
C15_Witness ==
  /\ job.class = "AsyncTask"
  /\ job.Flags.isChildTask /\ job.Flags.isGroupChildTask /\ job.Flags.isFuture
  /\ lastFragment.fragment = "future"
  /\ lastFragment.offset
       = SizeofAsyncTask + SizeofChildFragment + SizeofGroupChildFragment

(***************************************************************************)
(* C16  Job dispatch: each run of a job calls one entrypoint, the one the  *)
(* job was constructed with: the task entrypoint with (self, executor,     *)
(* resume context) if and only if the is_async_task flag is set, and the   *)
(* simple entrypoint with (self, executor) otherwise; a constructed job    *)
(* holds the task entrypoint if and only if the flag is set.               *)
(***************************************************************************)
C16_JobDispatch ==
  /\ [](job # NoJob =>
          /\ job.entry = "ResumeTask" <=> job.Flags.isAsyncTask
          /\ job.class = "AsyncTask" <=> job.Flags.isAsyncTask
          /\ \A i \in 1..Len(invocations) :
               /\ invocations[i].calledAs = invocations[i].stored
               /\ invocations[i].calledAs = "ResumeTask"
                    <=> job.Flags.isAsyncTask
               /\ \E e \in Executors :
                    invocations[i].args
                      = IF job.Flags.isAsyncTask
                        THEN <<"self", e, job.ResumeContext>>
                        ELSE <<"self", e>>)
  /\ [][invocations' # invocations =>
          /\ Len(invocations') = Len(invocations) + 1
          /\ SubSeq(invocations', 1, Len(invocations)) = invocations
       ]_vars

\* A plain job that carries child and future flags has been run twice
\* through the simple entrypoint.
C16_Witness ==
  /\ job.class = "Job"
  /\ job.Flags.isChildTask /\ job.Flags.isFuture
  /\ Len(invocations) = 2
  /\ \A i \in 1..2 : invocations[i].calledAs = "RunJob"


(***************************************************************************)
(* Raw syntax: helpers of the properties.                                  *)
(***************************************************************************)
RECURSIVE SeqSum(_)
SeqSum(q) == IF q = <<>> THEN 0 ELSE Head(q) + SeqSum(Tail(q))

NodeIndexes == 1..Len(nodes)
LayoutNodes == {i \in NodeIndexes : ~nodes[i].IsToken}
TokenNodes == {i \in NodeIndexes : nodes[i].IsToken}
NonNullChildren(i) ==
  {j \in 1..Len(nodes[i].Layout) : nodes[i].Layout[j] # NullNode}
ChildNode(i, j) == nodes[nodes[i].Layout[j]]

\* The text lengths of the children of node i, a null child counting 0.
ChildTextLengths(i) ==
  [j \in 1..Len(nodes[i].Layout) |->
     IF nodes[i].Layout[j] = NullNode THEN 0 ELSE ChildNode(i, j).TextLength]

\* The nodes each child of node i stands for, a null child counting 0.
ChildNodeCounts(i) ==
  [j \in 1..Len(nodes[i].Layout) |->
     IF nodes[i].Layout[j] = NullNode THEN 0
     ELSE 1 + (IF ChildNode(i, j).IsToken THEN 0
               ELSE ChildNode(i, j).TotalSubNodeCount)]

(***************************************************************************)
(* C17.  Text-length law: in a tree built through recordToken,             *)
(* recordMissingToken, recordRawSyntax and the length-computing factories, *)
(* the text length of a layout node is the sum of the text lengths of its  *)
(* non-null children, that of a present token is the sum of the byte       *)
(* lengths of its leading trivia, text and trailing trivia, and that of a  *)
(* missing token is 0.                                                     *)
(***************************************************************************)
C17_TextLengthLaw ==
  /\ \A i \in LayoutNodes :
       getTextLength(nodes[i]) = SeqSum(ChildTextLengths(i))
  /\ \A i \in TokenNodes :
       getTextLength(nodes[i]) =
         IF nodes[i].Presence = Present
         THEN nodes[i].LeadingTriviaLength + nodes[i].TokenLength
                + nodes[i].TrailingTriviaLength
         ELSE 0

\* A layout of a present token and of a missing token that keeps its
\* spelling and trivia has the length of the present token.
C17_Witness ==
  \E i \in LayoutNodes :
    /\ getTextLength(nodes[i]) = 4
    /\ \E j \in NonNullChildren(i) :
         ChildNode(i, j).IsToken /\ ChildNode(i, j).Presence = Present
    /\ \E j \in NonNullChildren(i) :
         /\ ChildNode(i, j).IsToken /\ ChildNode(i, j).Presence = Missing
         /\ ChildNode(i, j).TokenLength + ChildNode(i, j).LeadingTriviaLength > 2

(***************************************************************************)
(* C18.  Sub-node count law: the total sub-node count of a layout node is  *)
(* the sum, over its non-null children, of one plus the child's total      *)
(* sub-node count; a null child contributes 0, a token reports 0, and      *)
(* getTotalNodes is the total sub-node count plus one.                     *)
(***************************************************************************)
C18_SubNodeCountLaw ==
  /\ \A i \in LayoutNodes :
       /\ getTotalSubNodeCount(nodes[i]) = SeqSum(ChildNodeCounts(i))
       /\ getTotalNodes(nodes[i]) = SeqSum(ChildNodeCounts(i)) + 1
  /\ \A i \in TokenNodes :
       getTotalSubNodeCount(nodes[i]) = 0 /\ getTotalNodes(nodes[i]) = 1

\* A layout over a token and a nested layout that has a null child.
C18_Witness ==
  \E i \in LayoutNodes :
    /\ getTotalSubNodeCount(nodes[i]) = 3
    /\ \E j \in NonNullChildren(i) : ChildNode(i, j).IsToken
    /\ \E j \in NonNullChildren(i) :
         /\ ~ChildNode(i, j).IsToken
         /\ \E k \in 1..Len(ChildNode(i, j).Layout) :
              ChildNode(i, j).Layout[k] = NullNode

(***************************************************************************)
(* C19.  Node identity uniqueness: over any sequence of token and layout   *)
(* constructions, some without an id and some with an id never used        *)
(* before, no two constructed nodes have the same node id.                 *)
(***************************************************************************)
C19_UniqueNodeIds ==
  \A i, j \in NodeIndexes : i # j => getId(nodes[i]) # getId(nodes[j])

\* The nodes reachable from node i through child pointers, itself included.
RECURSIVE Reachable(_)
Reachable(i) ==
  {i} \cup UNION {Reachable(nodes[i].Layout[j]) : j \in NonNullChildren(i)}

(***************************************************************************)
(* C20.  Arena liveness: once a layout node is constructed in arena A, the *)
(* arena of each of its non-null children is A or is retained as a child   *)
(* arena of A; hence while A is alive, every node reachable from a node of *)
(* A is in an arena that is alive, also after the external holders of      *)
(* that arena are dropped.                                                 *)
(***************************************************************************)
C20_ArenaLiveness ==
  /\ \A i \in LayoutNodes : \A j \in NonNullChildren(i) :
       \/ ChildNode(i, j).Arena = nodes[i].Arena
       \/ ChildNode(i, j).Arena \in ChildArenas[nodes[i].Arena]
  /\ \A i \in NodeIndexes :
       arenaAlive[nodes[i].Arena] =>
         \A d \in Reachable(i) : arenaAlive[nodes[d].Arena]

\* A layout of arena A references a node of arena B, B's external holder
\* is gone, A is still held, and B is alive.
C20_Witness ==
  /\ external[ArenaA] /\ ~external[ArenaB] /\ arenaAlive[ArenaB]
  /\ \E i \in LayoutNodes :
       /\ nodes[i].Arena = ArenaA
       /\ \E j \in NonNullChildren(i) : ChildNode(i, j).Arena = ArenaB

(***************************************************************************)
(* C21.  lookupNode(offset, kind) returns (0, null) when no cache was      *)
(* supplied or the cache has no node of the kind at the offset; on a hit   *)
(* it returns the text length of the cached node and the cached node       *)
(* itself; it constructs no node and changes neither a node nor the state  *)
(* of the tree creator.                                                    *)
(***************************************************************************)
CachedAt(offset, kind) ==
  /\ SyntaxCache.supplied
  /\ SyntaxCache.node[offset] # NullNode
  /\ (IF nodes[SyntaxCache.node[offset]].IsToken THEN "Token"
      ELSE nodes[SyntaxCache.node[offset]].Kind) = kind

C21_LookupNode ==
  [][lookupResult' # lookupResult =>
       /\ UNCHANGED <<nodes, NextFreeNodeId, ChildArenas, external,
                      arenaAlive, SyntaxCache, lexerPos, pendingNodes,
                      transformResult>>
       /\ IF CachedAt(lookupResult'.offset, lookupResult'.kind)
          THEN /\ lookupResult'.node = SyntaxCache.node[lookupResult'.offset]
               /\ lookupResult'.length =
                    nodes[lookupResult'.node].TextLength
          ELSE /\ lookupResult'.node = NullNode
               /\ lookupResult'.length = 0]_vars

\* A lookup hit a cached layout that has text.
C21_Witness ==
  /\ lookupResult.node # NullNode
  /\ lookupResult.length > 0
  /\ ~nodes[lookupResult.node].IsToken

(***************************************************************************)
(* C22.  Immutability: no factory, record function or transform changes a  *)
(* field of a node that is already constructed, and each transform         *)
(* (withLeadingTrivia, withTrailingTrivia, append, replacingChild) returns *)
(* a new node allocated in the arena of the node it was called on.         *)
(***************************************************************************)
C22_Immutability ==
  [][/\ Len(nodes') >= Len(nodes)
     /\ \A i \in 1..Len(nodes) : nodes'[i] = nodes[i]
     /\ transformResult' # transformResult =>
          /\ Len(nodes') = Len(nodes) + 1
          /\ transformResult'.node = Len(nodes')
          /\ transformResult'.on \in 1..Len(nodes)
          /\ nodes'[transformResult'.node].Arena =
               nodes[transformResult'.on].Arena]_vars

\* A token of arena B was given longer leading trivia: the new token is in
\* arena B and the old one has the trivia it was recorded with.
C22_Witness ==
  /\ transformResult.op = "withLeadingTrivia"
  /\ nodes[transformResult.on].Arena = ArenaB
  /\ nodes[transformResult.on].LeadingTrivia = <<" ">>
  /\ nodes[transformResult.on].TextLength = 4
  /\ nodes[transformResult.node].LeadingTrivia = <<" ", " ">>
  /\ nodes[transformResult.node].TextLength = 5

\* The texts of a sequence of nodes, one after the other.
RECURSIVE printAll(_)
printAll(q) == IF q = <<>> THEN <<>> ELSE print(Head(q)) \o printAll(Tail(q))

\* The bytes of the source buffer the parser has consumed.
ConsumedBytes ==
  IF lexerPos = 0 THEN 0
  ELSE SourceTokens[lexerPos].rangeStart + SourceTokens[lexerPos].byteLength

(***************************************************************************)
(* C23.  Print round trip: printing a recorded tree with the default print *)
(* options writes leading trivia, text and trailing trivia of each present *)
(* token in child order and nothing for missing nodes, so that the output  *)
(* is the source slice the tree was recorded from and is as long as the    *)
(* text length of the root.                                                *)
(***************************************************************************)
C23_PrintRoundTrip ==
  /\ printAll(pendingNodes) = SubSeq(ArenaSourceBuffer, 1, ConsumedBytes)
  /\ \A i \in NodeIndexes : Len(print(i)) = getTextLength(nodes[i])

\* The whole buffer is parsed into one tree that has a missing token and a
\* nested layout with an absent child.
C23_Witness ==
  /\ lexerPos = Len(SourceTokens)
  /\ Len(pendingNodes) = 1
  /\ getTextLength(nodes[pendingNodes[1]]) = Len(ArenaSourceBuffer)
  /\ \E i \in TokenNodes : isMissing(nodes[i])
  /\ \E j \in 1..Len(nodes[pendingNodes[1]].Layout) :
       nodes[pendingNodes[1]].Layout[j] = NullNode

(***************************************************************************)
(* C24.  An async call returns to its caller exactly once on the normal    *)
(* path: when a task started by the async main runner calls an async       *)
(* function (directly, through a throwing function type, or as a resilient *)
(* class method), the callee's body runs exactly once with the argument    *)
(* passed, then the caller's success continuation is resumed exactly once  *)
(* and its error continuation never, and the task runs to completion.      *)
(***************************************************************************)
C24_CallSafe ==
  /\ taskDone <= 1
  /\ \A c \in 1..Len(activations) :
       /\ activations[c].bodyRuns <= 1
       /\ activations[c].successResumes <= 1
       /\ activations[c].errorResumes = 0
       /\ activations[c].pc # "failed"
       \* the caller is resumed only after the callee ran and returned
       /\ activations[c].successResumes = 1 =>
            /\ c + 1 <= Len(activations)
            /\ activations[c + 1].pc = "returned"
            /\ activations[c + 1].bodyRuns = 1
       \* a callee that returned has resumed its caller
       /\ (c > 1 /\ activations[c].pc = "returned") =>
            activations[c - 1].successResumes = 1
       \* the task completes only when the started function has returned
       /\ taskDone = 1 => activations[c].pc = "returned"
  \* a body that ran printed the argument of its call
  /\ \A c \in 1..Len(activations) :
       (activations[c].pc \in {"body_done", "returned"}
          /\ (c = Len(activations))) =>
         printed = <<activations[c].arg>>

C24_CallReturnsOnce == []C24_CallSafe /\ <>(taskDone = 1)

\* The argument 9999 was passed through a throwing function type, the
\* callee printed it, the caller was resumed and the task completed.
C24_Witness ==
  /\ taskDone = 1
  /\ Len(activations) >= 2
  /\ activations[Len(activations)].kind = "throwing_type"
  /\ activations[Len(activations)].arg = 9999
  /\ printed = <<9999>>
  /\ activations[Len(activations) - 1].successResumes = 1

(***************************************************************************)
(* C30.  Context return linkage: resumeParent(task, executor) on a context *)
(* invokes the continuation stored in the context exactly once, with the   *)
(* same task, the same executor and the context's parent as the context    *)
(* argument; for the root context the parent passed is null.               *)
(***************************************************************************)
C30_ResumeParentLinkage ==
  [][/\ \A k \in 1..Len(callLog) :
          /\ callLog[k].call.fn = contexts[callLog[k].on].ResumeParent
          /\ callLog[k].call.task = callLog[k].task
          /\ callLog[k].call.executor = callLog[k].executor
          /\ callLog[k].call.context = contexts[callLog[k].on].Parent
          /\ callLog[k].on = 1 => callLog[k].call.context = nullptr
     /\ Len(callLog') <= Len(callLog) + 1
     /\ SubSeq(callLog', 1, Len(callLog)) = callLog
     /\ \A k, l \in 1..Len(callLog') :
          callLog'[k].on = callLog'[l].on => k = l]_vars

\* resumeParent was called on a callee's context and on the root context,
\* on different executors.
C30_Witness ==
  /\ Len(callLog) >= 2
  /\ callLog[1].on > 1 /\ callLog[1].call.context = callLog[1].on - 1
  /\ callLog[Len(callLog)].on = 1
  /\ callLog[Len(callLog)].call.fn = CompleteTask
  /\ callLog[1].executor # callLog[Len(callLog)].executor

(***************************************************************************)
(* C25.  In every reachable state of a future's wait queue, a status other *)
(* than Executing implies a null head-of-waiters pointer: the completion   *)
(* that sets the terminal status detaches the whole waiter list in the     *)
(* same atomic step, and no waitFuture call afterwards links a task into   *)
(* the queue.                                                              *)
(***************************************************************************)
C25_TerminalHeadNull ==
  getStatus(waitQueue) # Executing => getTask(waitQueue) = nullptr

C25_TerminalQueueDetached ==
  /\ []C25_TerminalHeadNull
  /\ [][/\ (getStatus(waitQueue) = Executing
             /\ getStatus(waitQueue') # Executing) =>
            /\ getTask(waitQueue') = nullptr
            \* the step hands the list that was queued to the completer
            /\ \E c \in Completers :
                 /\ cpc[c] = "cas"
                 /\ cCur'[c] = getTask(waitQueue)
        /\ getStatus(waitQueue) # Executing =>
            /\ waitQueue' = waitQueue
            /\ regOrder' = regOrder
            /\ \A t \in Waiters : wpc'[t] = "parked" => wpc[t] = "parked"
       ]_vars

\* The future was completed while a task was queued, and a waitFuture call
\* made after that returned the terminal status without queueing.
C25_Witness ==
  /\ getStatus(waitQueue) # Executing
  /\ Len(regOrder) = 1
  /\ \E t \in Waiters : wpc[t] = "returned" /\ ret[t] = getStatus(waitQueue)
  /\ \E c \in Completers : cpc[c] = "done"

(***************************************************************************)
(* C26.  Releasing the status lock clears the lock bit and publishes the   *)
(* innermost-record pointer as updated inside the critical section: the    *)
(* word written points at the record that is innermost after the pushes    *)
(* and pops of the section, and the chain read from it is the chain the    *)
(* section left.  It never writes a clear cancelled bit over a status      *)
(* whose cancelled bit was set before or during the critical section:      *)
(* across acquire and release the cancelled bit only goes from clear to    *)
(* set.                                                                    *)
(***************************************************************************)
C26_LockRelease ==
  [][\A t \in STasks :
       /\ (LockHolders(t) \ LockHolders(t)' # {}) =>
            /\ isLocked(status[t])
            /\ ~isLocked(status'[t])
            /\ getInnermostRecord(status'[t]) = InnermostPushed(t)'
            /\ ChainPointers(getInnermostRecord(status'[t]))
                 = RecAddrs(ReverseSeq(pushStack'[t]))
            /\ (mutation.task = t /\ mutation'.task = 0) =>
                 getInnermostRecord(status'[t]) = mutation.record
            /\ isCancelled(status[t]) => isCancelled(status'[t])
            /\ status'[t] - getInnermostRecord(status'[t])
                 = (IF isCancelled(status[t]) THEN IsCancelled ELSE 0)
       \* entering and staying in the critical section keeps a set bit
       /\ (LockHolders(t)' # {} /\ isCancelled(status[t])) =>
            isCancelled(status'[t])
    ]_vars

\* The root was cancelled with its group record pushed; then the mutating
\* thread took the root's lock, unlinked the group record, linked the
\* handler record and released: the word is the handler record's address
\* with the cancelled bit.
C26_Witness ==
  /\ effCancels[Root] = 1
  /\ snap[Root] = GroupChildren
  /\ mutation.task = 0 /\ mutation.released = Root
  /\ pushStack[Root] = <<HandlerRec>>
  /\ status[Root] = RecAddr(HandlerRec) + IsCancelled

\* The cancelled bit of the status word of task t.
CancelledBit(t) == BitAnd(status[t], IsCancelled)

\* The address of the record below the innermost record task t has pushed.
OuterPushed(t) ==
  IF Len(pushStack[t]) < 2 THEN nullptr
  ELSE RecAddr(pushStack[t][Len(pushStack[t]) - 1])

(***************************************************************************)
(* C28.  Pushing and popping status records leaves the cancelled bit as it *)
(* is, and a push of record R followed by the pop of R restores the        *)
(* innermost-record pointer: the push saves the pointer it finds in R, and *)
(* the pop writes the saved pointer back.  On a cancelled task, push R     *)
(* then pop R leaves the task cancelled.                                   *)
(***************************************************************************)
C28_PushPopFrame ==
  /\ [](\A t \in STasks :
          pushStack[t] # <<>> =>
            recParent[AddrRec(InnermostPushed(t))] = OuterPushed(t))
  /\ [][\A t \in STasks :
          /\ pushStack'[t] # pushStack[t] => CancelledBit(t)' = CancelledBit(t)
          /\ Len(pushStack'[t]) > Len(pushStack[t]) =>
               /\ getInnermostRecord(status'[t]) = InnermostPushed(t)'
               /\ recParent'[AddrRec(InnermostPushed(t)')]
                    = getInnermostRecord(status[t])
          /\ Len(pushStack'[t]) < Len(pushStack[t]) =>
               /\ getInnermostRecord(status'[t])
                    = recParent[AddrRec(InnermostPushed(t))]
               /\ getInnermostRecord(status'[t]) = OuterPushed(t)
       ]_vars

\* The root was cancelled with an empty chain; it has since pushed its
\* handler record, pushed its group record and popped the group record,
\* and it is still cancelled.
C28_Witness ==
  /\ effCancels[Root] = 1
  /\ ~CancelInProgress(Root)
  /\ handlerRuns[HandlerRec] = 0
  /\ pushStack[Root] = <<HandlerRec>>
  /\ recParent[GroupRec] = RecAddr(HandlerRec)
  /\ status[Root] = RecAddr(HandlerRec) + IsCancelled

\* The tasks created under the records of task t, and their descendants.
ChildTasks(t) == UNION {RecChildren(r) : r \in RecordsOf(t)}

RECURSIVE DescendantsN(_, _)
DescendantsN(S, n) ==
  IF n = 0 THEN S
  ELSE DescendantsN(S \cup UNION {ChildTasks(c) : c \in S}, n - 1)

\* The task tree is the root, its group's children and a grandchild.
TreeDepth == 2

Descendants(t) == DescendantsN(ChildTasks(t), TreeDepth - 1)

\* The tasks a cancel call of thread k is cancelling: the task it was
\* called on and the tasks below it.
CancelScope(k) ==
  IF cstack[k] = <<>> THEN {}
  ELSE {cstack[k][1].task} \cup Descendants(cstack[k][1].task)

\* A step of a cancel call.
CancelStep == kpc' # kpc \/ cstack' # cstack

(***************************************************************************)
(* C29.  Cancellation is cooperative: a cancel changes only status words,  *)
(* of the task and of its descendants, and in them only the cancelled bit  *)
(* (and the lock bit while the cancel holds the lock).  It changes no      *)
(* resume context, no future's wait queue status or waiter list, enqueues  *)
(* and dequeues no job, and does not alter the record chain.               *)
(***************************************************************************)
C29_CancelCooperative ==
  /\ [][CancelStep =>
          /\ UNCHANGED <<resumeContext, contexts, activations>>
          /\ UNCHANGED <<waitQueue, nextWaiting, wpc, ret, regOrder>>
          /\ UNCHANGED <<enqLog, ranIdx, job, invocations>>
          /\ UNCHANGED <<recParent, pushStack>>
          /\ \A t \in STasks :
               /\ getInnermostRecord(status'[t]) = getInnermostRecord(status[t])
               /\ isCancelled(status[t]) => isCancelled(status'[t])
               /\ status'[t] # status[t] =>
                    \E k \in Cancellers :
                      t \in CancelScope(k) \cup CancelScope(k)'
       ]_vars
  \* with no cancel in progress a status word is the record pointer and
  \* the cancelled bit
  /\ [](NoCancelInProgress =>
          \A t \in STasks :
            status[t] = InnermostPushed(t)
                          + (IF effCancels[t] > 0 THEN IsCancelled ELSE 0))

\* The started root task and its first child are parked on the future,
\* the root inside its task group; a cancel of the root has returned and
\* has cancelled the root and the group's children: the tasks are still
\* parked in the queue, in the same order, and nothing was enqueued.
C29_Witness ==
  /\ resumeContext = 1
  /\ \A t \in Waiters : wpc[t] = "parked"
  /\ getStatus(waitQueue) = Executing
  /\ getTask(waitQueue) = TaskAddr(regOrder[Len(regOrder)])
  /\ enqLog = <<>>
  /\ NoCancelInProgress
  /\ effCancels[Root] = 1
  /\ pushStack[Root] = <<GroupRec>>
  /\ \A c \in GroupChildren : isCancelled(status[c])
  /\ status[Root] = RecAddr(GroupRec) + IsCancelled

\* Bit b of a word.
BitOf(Value, b) == (Value \div Pow2(b)) % 2

(***************************************************************************)
(* C38.  Status-word packing round-trips: for every record pointer r that  *)
(* is 4-byte aligned (or null) and all booleans c and l, the status value  *)
(* built from (r, c, l) decodes to innermost record r, isCancelled = c and *)
(* isLocked = l, with bit 0 carrying cancelled and bit 1 carrying locked;  *)
(* the default status is (null, not cancelled, not locked).                *)
(***************************************************************************)
C38_StatusRoundTrip ==
  /\ getInnermostRecord(statusWord.Value) = statusWord.record
  /\ isCancelled(statusWord.Value) = statusWord.cancelled
  /\ isLocked(statusWord.Value) = statusWord.locked
  /\ BitOf(statusWord.Value, 0) = (IF statusWord.cancelled THEN 1 ELSE 0)
  /\ BitOf(statusWord.Value, 1) = (IF statusWord.locked THEN 1 ELSE 0)
  /\ statusWord.Value = ActiveTaskStatus_default =>
       /\ statusWord.record = nullptr
       /\ ~statusWord.cancelled
       /\ ~statusWord.locked

\* A status was built from the highest aligned pointer of the word with
\* the cancelled flag alone.
C38_Witness ==
  /\ statusWord.record = WordMax - (RecordAlign - 1)
  /\ statusWord.cancelled
  /\ ~statusWord.locked
  /\ statusWord.Value = WordMax - IsLocked

\* The bytes of the source buffer that a range covers.
RangeBytes(r) == substr(ArenaSourceBuffer, r.rangeStart, r.byteLength)

\* What the claim says of the token n that recordToken returns for r.
RecordedSlices(r, n) ==
  /\ n.IsToken /\ n.Presence = Present
  /\ getTextLength(n) = r.byteLength
  /\ Len(n.LeadingTrivia) = r.leadingSize
  /\ Len(n.TrailingTrivia) = r.trailingSize
  /\ Len(n.TokenText) = r.byteLength - r.leadingSize - r.trailingSize
  /\ n.LeadingTriviaLength + n.TokenLength + n.TrailingTriviaLength
       = getTextLength(n)
  /\ n.LeadingTrivia \o n.TokenText \o n.TrailingTrivia = RangeBytes(r)

(***************************************************************************)
(* C37.  recordToken(kind, leading, trailing, range), called with the      *)
(* range of a token and its trivia, yields a Present token whose text      *)
(* length is the byte length of the range and whose leading trivia, token  *)
(* text and trailing trivia are three adjacent, non-overlapping slices of  *)
(* the arena's source buffer starting at the range's start offset; the     *)
(* token text has length range length - |leading| - |trailing|, so that    *)
(* the three lengths sum to the text length.                               *)
(***************************************************************************)
C37_RecordTokenSlices ==
  [][\A r \in LexerRanges :
       (/\ Len(nodes') = Len(nodes) + 1
        /\ nodes'[Len(nodes')]
             = recordToken(r.kind, r.leadingSize, r.trailingSize,
                           r.rangeStart, r.byteLength, ArenaA)) =>
         RecordedSlices(r, nodes'[Len(nodes')])
    ]_vars

\* The token " (x) " was recorded from the range at offset 3 with one byte
\* of leading and two bytes of trailing trivia.
C37_Witness ==
  /\ Len(nodes) = 1
  /\ nodes[1].LeadingTrivia = <<" ">>
  /\ nodes[1].TokenText = <<"(", "x">>
  /\ nodes[1].TrailingTrivia = <<")", " ">>
  /\ nodes[1].TextLength = 5

\* What a trivia transform must return: the token n with the trivia on one
\* side replaced by t and the length recomputed.
TriviaTransformed(op, n, t, m) ==
  /\ m.IsToken
  /\ m.Kind = n.Kind /\ m.TokenText = n.TokenText
  /\ m.Presence = n.Presence
  /\ IF op = "withLeadingTrivia"
     THEN m.LeadingTrivia = t /\ m.TrailingTrivia = n.TrailingTrivia
     ELSE m.TrailingTrivia = t /\ m.LeadingTrivia = n.LeadingTrivia
  /\ m.TextLength =
       IF n.Presence = Missing THEN 0
       ELSE Len(m.LeadingTrivia) + Len(m.TokenText) + Len(m.TrailingTrivia)

IsTriviaTransform(op) == op \in {"withLeadingTrivia", "withTrailingTrivia"}

(***************************************************************************)
(* C36.  withLeadingTrivia(t) on a token n returns a token with the token  *)
(* kind, token text, trailing trivia and presence of n, leading trivia t,  *)
(* text length |t| + |text| + |trailing| when present and 0 when missing,  *)
(* and a fresh node id that differs from n's; withTrailingTrivia is        *)
(* symmetric.                                                              *)
(***************************************************************************)
C36_WithTrivia ==
  [][(transformResult' # transformResult
      /\ IsTriviaTransform(transformResult'.op)) =>
       LET n == nodes[transformResult'.on]
           m == nodes'[transformResult'.node]
       IN /\ TriviaTransformed(transformResult'.op, n,
                               transformResult'.arg, m)
          /\ m.NodeId # n.NodeId]_vars

\* C36, the fields other than the id: every trivia transform returns the
\* token with the one trivia replaced and the length recomputed.
C36_WithTriviaFields ==
  [][(transformResult' # transformResult
      /\ IsTriviaTransform(transformResult'.op)) =>
       TriviaTransformed(transformResult'.op, nodes[transformResult'.on],
                         transformResult'.arg,
                         nodes'[transformResult'.node])]_vars

(***************************************************************************)
(* C35.  Next-free id counter: NextFreeNodeId never decreases, and after   *)
(* any construction, with or without a caller-supplied id and for every id *)
(* value of the unsigned id type, it is strictly greater than the id of    *)
(* every node constructed so far, so that a later automatically assigned   *)
(* id never equals an earlier supplied one.                                *)
(***************************************************************************)
C35_NextFreeAboveIds ==
  [][/\ NextFreeNodeId' >= NextFreeNodeId
     /\ \A i \in 1..Len(nodes') : NextFreeNodeId' > nodes'[i].NodeId]_vars

(***************************************************************************)
(* C34.  Every node whose presence is Missing has text length 0, token or  *)
(* layout and whichever factory built it (make with an explicit length,    *)
(* makeAndCalcLength, missing); the missing-node factories also give       *)
(* tokens empty leading and trailing trivia and layouts no children.       *)
(***************************************************************************)
C34_MissingLengthZero ==
  /\ \A i \in 1..Len(nodes) :
       nodes[i].Presence = Missing => getTextLength(nodes[i]) = 0
  /\ \A k \in TokKinds, a \in Arenas :
       LET n == missing_token(k, getTokenText(k), a)
       IN n.Presence = Missing /\ n.LeadingTrivia = <<>>
          /\ n.TrailingTrivia = <<>>
  /\ \A k \in SyntaxKinds, a \in Arenas :
       LET n == missing_layout(k, a)
       IN n.Presence = Missing /\ n.Layout = <<>> /\ n.NumChildren = 0

(***************************************************************************)
(* C33.  Child visibility: every write to a child task's NextChild is made *)
(* by the task that is the parent of that child and of the task being      *)
(* linked; nothing else changes NextChild, and a child's Parent never      *)
(* changes after the child is created.                                     *)
(***************************************************************************)
C33_ChildVisibility ==
  [][\A c \in FamilyTasks :
       /\ fragments[c].made =>
            /\ fragments'[c].made
            /\ fragments'[c].Parent = fragments[c].Parent
       /\ fragments'[c].NextChild # fragments[c].NextChild =>
            /\ lastLink'.fragment = c
            /\ lastLink'.task = fragments'[c].NextChild
            /\ lastLink'.caller = fragments'[c].Parent
            /\ lastLink'.task # nullptr =>
                 fragments'[lastLink'.task].Parent = lastLink'.caller
    ]_vars

\* Task 2, a child of the root, linked its second child 4 in front of its
\* first child 3.
C33_Witness ==
  /\ fragments[2].Parent = 1
  /\ fragments[3].Parent = 2 /\ fragments[4].Parent = 2
  /\ lastLink = [caller |-> 2, fragment |-> 4, task |-> 3]
  /\ fragments[4].NextChild = 3

\* The tasks of the list that starts at a task pointer, threaded through
\* the NextWaitingTask words.
RECURSIVE WaitingFrom(_, _)
WaitingFrom(task, n) ==
  IF task = nullptr \/ n = 0 \/ AddrTask(task) \notin SuspendTasks THEN {}
  ELSE {AddrTask(task)}
         \cup UNION {WaitingFrom(next, n - 1) :
                       next \in NextWaitingTask(SchedulerPrivate[AddrTask(task)])}

\* The waiters linked on future f: the list in its wait queue word and
\* what is left of the list its completion detached.
WaitersOf(f) ==
  WaitingFrom(futureQueue[f] - (futureQueue[f] % 4),
              Cardinality(SuspendTasks))
    \cup WaitingFrom(walkCursor[f], Cardinality(SuspendTasks))

LinkedOn(t) == {f \in SuspendFutures : t \in WaitersOf(f)}

\* The task can be seen by another thread or executor.
VisibleSuspended(t) == LinkedOn(t) # {} \/ enqueuedOn[t] # {}

(***************************************************************************)
(* C31.  At every suspension point (waitFuture returning Executing, a      *)
(* yield to the parent, an executor hop) the task's ResumeContext has been *)
(* set to the current activation record before the task becomes visible to *)
(* another thread or executor, and whenever the task is next run it is     *)
(* resumed with exactly that context.                                      *)
(***************************************************************************)
C31_ResumeContextCommitted ==
  [][\A t \in SuspendTasks :
       /\ VisibleSuspended(t)' =>
            /\ suspension'[t].context # nullptr
            /\ suspension'[t].context = currentContext'[t]
            /\ taskResumeContext'[t] = suspension'[t].context
       /\ (lastResume'[t] # lastResume[t] /\ lastResume'[t] # NoResume) =>
            /\ suspension[t].context # nullptr
            /\ lastResume'[t].context = suspension[t].context
            /\ currentContext'[t] = suspension[t].context
    ]_vars

\* Task 1 suspended in its second activation record on a future that was
\* executing, and executor 2 resumed it with that context; task 2 was
\* resumed after a hop.
C31_Witness ==
  /\ lastResume[1] = [executor |-> 2, context |-> 2, after |-> "wait"]
  /\ lastResume[2].after = "hop"
  /\ taskPc[1] = "running" /\ currentContext[1] = 2

(***************************************************************************)
(* C32.  A task is linked into at most one future's waiter list at any     *)
(* time and is never running on an executor while linked: between          *)
(* waitFuture returning Executing and the completion that enqueues it the  *)
(* task is neither run nor registered on another future, so that its       *)
(* NextWaitingTask link (SchedulerPrivate[0]) is never overwritten while   *)
(* in use and no task runs on two executors at once.                       *)
(***************************************************************************)
C32_OneListNotRunning ==
  [][\A t \in SuspendTasks :
       LET before == LinkedOn(t)
           after == LinkedOn(t)'
       IN /\ Cardinality(after) <= 1
          /\ after # {} =>
               /\ taskPc'[t] = "parked"
               /\ runningOn'[t] = {} /\ enqueuedOn'[t] = {}
               /\ after = {waitingOn'[t]}
          /\ taskPc'[t] = "parked" => after # {}
          /\ (before # {} /\ after # {}) =>
               /\ SchedulerPrivate'[t] = SchedulerPrivate[t]
               /\ after = before
          /\ Cardinality(runningOn'[t] \cup enqueuedOn'[t]) <= 1
    ]_vars

\* The first future was completed and its detached list still holds task
\* 1, which waits to be enqueued; task 2 is linked on the second future.
C32_Witness ==
  /\ getStatus(futureQueue[1]) = Success
  /\ walkCursor[1] = TaskAddr(1)
  /\ getTask(futureQueue[2]) = TaskAddr(2)
  /\ taskPc[1] = "parked" /\ taskPc[2] = "parked"
  /\ suspension[1].context = 2
=============================================================================
